---- MODULE Spec2Model ----
(***************************************************************************)
(* Model of the cube process-composition runtime: the component group      *)
(* tree (package component), its dependency-injection container (package   *)
(* di) and the dependency graph the container builds.                      *)
(***************************************************************************)
EXTENDS Integers, Sequences, FiniteSets, TLC

\* ------------------------------------------------------------------ bounds
MaxGroups == 3
MaxAdds == 3

GroupIds == 1..MaxGroups
NoGroup == 0

\* Names a child group can be registered under (group.children is keyed by name).
Names == {"x", "y"}

\* ------------------------------------------------------------------- types
\* TypeKeys.  Every group's container provides Context and Shutdown, the root
\* container also ServerShutdown and the FlagSet.
ctxType == "Context"
shutType == "Shutdown"
GroupTypes == {ctxType, shutType}
RootTypes == {"ServerShutdown", "FlagSet"}
UserTypes == {"A", "B", "C"}
errType == "error"
Types == GroupTypes \cup RootTypes \cup UserTypes \cup {errType}

\* The pointer types a function can name a parameter by, and baseType: a
\* pointer type becomes the type it points to, any other type is itself.
PtrTypes == {"*Context", "*A"}
baseType(v) ==
    CASE v = "*Context" -> ctxType
      [] v = "*A" -> "A"
      [] OTHER -> v

\* The lifecycle interfaces a value of a type implements (the type assertions
\* of addLCHooks succeed for exactly these).
Implements(t) ==
    CASE t = "A" -> {"config", "start", "stop", "health"}
      [] t = "B" -> {"config", "start", "stop", "health"}
      [] t = "C" -> {"config", "stop"}
      [] OTHER -> {}

\* ------------------------------------------------------------ constructors
\* A constructor function: the types of its non-error results, the types of
\* its parameters, whether its last result is an error, and whether that
\* error is non-nil when it is called.
Ctr(outs, deps, hasErr, fails) ==
    [k |-> "ctr", outs |-> outs, deps |-> deps, hasErr |-> hasErr, fails |-> fails]

\* A vertex with no constructor (forward reference) and a missing vertex.
NilCtr == [k |-> "nil", outs |-> <<>>, deps |-> <<>>, hasErr |-> FALSE, fails |-> FALSE]
Absent == [k |-> "absent", outs |-> <<>>, deps |-> <<>>, hasErr |-> FALSE, fails |-> FALSE]

\* The constructors the group tree is populated with.
GroupCtrs ==
    { Ctr(<<"A">>, <<ctxType>>, FALSE, FALSE),
      Ctr(<<"B">>, <<"A">>, FALSE, FALSE),
      Ctr(<<"C">>, <<>>, FALSE, FALSE) }

\* The constructors a container is populated with when it is built on its
\* own: those of the groups, constructors with a trailing error result (nil,
\* or non-nil for C) and a constructor with two results.
BuildCtrs ==
    GroupCtrs \cup
    { Ctr(<<"A">>, <<>>, TRUE, FALSE),
      Ctr(<<"B">>, <<>>, TRUE, FALSE),
      Ctr(<<"C">>, <<>>, TRUE, TRUE),
      Ctr(<<"A", "B">>, <<>>, FALSE, FALSE) }

\* The functions given to Invoke: with a parameter named directly or through
\* a pointer, with a result, and one that returns a non-nil error.
InvokeFns ==
    { Ctr(<<>>, <<ctxType>>, FALSE, FALSE),
      Ctr(<<>>, <<"*Context">>, FALSE, FALSE),
      Ctr(<<>>, <<"*A">>, FALSE, FALSE),
      Ctr(<<"C">>, <<"A">>, FALSE, FALSE),
      Ctr(<<>>, <<>>, TRUE, TRUE) }

\* ---------------------------------------------------------------- results
\* error values; NoErr is the nil error.
NoErr == [k |-> "nil", g |-> NoGroup, t |-> ""]
Err(k, g, t) == [k |-> k, g |-> g, t |-> t]

\* ------------------------------------------------------------------- state
VARIABLES
    nGroups,      \* number of groups created so far (ids 1..nGroups)
    parent,       \* group.parent
    children,     \* group.children: name -> child group
    dagVal,       \* per container: the vertices of c.dag and their constructor
    dagEdges,     \* per container: the edges <<dependency, node>> of c.dag
    objTable,     \* per container: the types with a cached value
    regs,         \* per container: the constructors Add accepted, in order
    nAdds,        \* number of Add calls made on component groups
    configHooks,  \* group.configHooks
    startHooks,   \* group.startHooks
    stopHooks,    \* group.stopHooks
    healthHooks,  \* group.healthHooks
    phase,        \* "init" while groups are populated, then the result of Create
    ctxParent,    \* per group: the group whose context g.ctx was derived from
    cancelled,    \* the groups whose context reports cancelled (Done is closed)
    last,         \* the last call: operation, group, input, events, result
    tg,           \* a dependency graph used on its own (NewVertex, Edge, Sort)
    tlast,        \* the last call on tg: operation, arguments, graph before, result
    tc,           \* a container used on its own: its graph, the constructors accepted
    clast,        \* the last Add call on tc: constructor, container before, result
    stopHist,     \* the Stop hooks invoked so far: once, and more than once
    main,         \* cube.Main: its position and the phases it has been through
    rt            \* the signal router: its maps, its lock and its goroutines

vars == <<nGroups, parent, children, dagVal, dagEdges, objTable, regs, nAdds,
          configHooks, startHooks, stopHooks, healthHooks, phase,
          ctxParent, cancelled, last, tg, tlast, tc, clast, stopHist, main, rt>>

treeVars == <<nGroups, parent, children>>
dagVars == <<dagVal, dagEdges, regs, nAdds>>
hookVars == <<configHooks, startHooks, stopHooks, healthHooks>>
ctxVars == <<ctxParent, cancelled>>
groupVars == <<treeVars, dagVars, objTable, hookVars, phase, ctxVars, last>>
procVars == <<main, rt>>
graphVars == <<tg, tlast, tc, clast, stopHist, procVars>>

\* --------------------------------------------------------- dependency graph
\* A graph is a record [val, edges]: val maps a key to its vertex payload
\* (Absent when the key is no vertex).
EmptyDag == [val |-> [t \in Types |-> Absent], edges |-> {}]

\* vertex insertion that takes a key again while its vertex has no payload
AddVertexOverEmpty(d, key, v) ==
    IF d.val[key].k = "ctr"
    THEN [ok |-> FALSE, d |-> d]
    ELSE [ok |-> TRUE, d |-> [d EXCEPT !.val[key] = v]]

\* dag vertex insertion: an error when the key is already a vertex.
AddVertex(d, key, v) ==
    IF d.val[key].k # "absent"
    THEN [ok |-> FALSE, d |-> d]
    ELSE [ok |-> TRUE, d |-> [d EXCEPT !.val[key] = v]]

GetValue(d, key) == d.val[key]

SetValue(d, key, v) ==
    IF d.val[key].k = "absent" THEN d ELSE [d EXCEPT !.val[key] = v]

RemoveVertex(d, key) ==
    [val |-> [d.val EXCEPT ![key] = Absent],
     edges |-> {e \in d.edges : e[1] # key /\ e[2] # key}]

Vertices(d) == {t \in Types : d.val[t].k # "absent"}

\* the vertices reachable from a along one or more edges
RECURSIVE ReachFrom(_, _, _)
ReachFrom(edges, frontier, seen) ==
    LET next == {e[2] : e \in {x \in edges : x[1] \in frontier}} \ seen
    IN IF next = {} THEN seen ELSE ReachFrom(edges, next, seen \cup next)

Reachable(edges, a) == ReachFrom(edges, {a}, {})

\* every strongly connected component is a single vertex
isAcyclic(d) ==
    \A a \in Vertices(d) : \A b \in Vertices(d) :
        ~(a # b /\ b \in Reachable(d.edges, a) /\ a \in Reachable(d.edges, b))

\* addEdge without the RemoveEdge of the cycle branch: the error is returned
\* and the edge stays
addEdgeKeepsEdge(d, node, dependency) ==
    IF d.val[node].k = "absent" THEN [ok |-> FALSE, d |-> d]
    ELSE IF d.val[dependency].k = "absent" THEN [ok |-> FALSE, d |-> d]
    ELSE IF node = dependency THEN [ok |-> FALSE, d |-> d]
    ELSE LET made == [d EXCEPT !.edges = @ \cup {<<dependency, node>>}]
         IN [ok |-> isAcyclic(made), d |-> made]

\* node depends on dependency: the edge runs from the dependency to the node
addEdge(d, node, dependency) ==
    IF d.val[node].k = "absent" THEN [ok |-> FALSE, d |-> d]
    ELSE IF d.val[dependency].k = "absent" THEN [ok |-> FALSE, d |-> d]
    ELSE IF node = dependency THEN [ok |-> FALSE, d |-> d]
    ELSE LET made == [d EXCEPT !.edges = @ \cup {<<dependency, node>>}]
         IN IF ~isAcyclic(made)
            THEN [ok |-> FALSE, d |-> [made EXCEPT !.edges = @ \ {<<dependency, node>>}]]
            ELSE [ok |-> TRUE, d |-> made]

\* A topological order of the graph: every vertex once, a dependency before
\* the nodes that depend on it.  Ready is the set of vertices that may come
\* next once the vertices in done have been placed.
Ready(d, done) ==
    {v \in Vertices(d) \ done : \A e \in d.edges : e[2] = v => e[1] \in done}

\* ------------------------------------------------- the graph of package di
\* The graph of dag.go keeps, besides the vertices and the edges, the order in
\* which the nodes were made (nodes) and the order in which the edges were
\* made (adj): the topological sort walks the nodes and their edges in it.
NewDAG == [val |-> EmptyDag.val, edges |-> {}, nodes |-> <<>>, adj |-> <<>>]

\* dag.NewVertex: an error when the key is a vertex, else a node is made
NewVertex(t, key, val) ==
    LET r == AddVertex(t, key, val)
    IN IF ~r.ok THEN [ok |-> FALSE, d |-> t]
       ELSE [ok |-> TRUE, d |-> [r.d EXCEPT !.nodes = Append(@, key)]]

\* one dg.addEdge(node, dep) of dag.Edge, with the edge lists of the nodes
\* following graph.MakeEdge and graph.RemoveEdge
EdgeStep(t, node, dep) ==
    LET r == addEdge(t, node, dep)
        kept == SelectSeq(t.adj, LAMBDA e : e \in r.d.edges)
        new == r.d.edges \ t.edges
    IN [ok |-> r.ok,
        d |-> [r.d EXCEPT !.adj = IF new = {} THEN kept
                                  ELSE Append(kept, CHOOSE e \in new : TRUE)]]

\* dag.Edge: addEdge for every dependency in turn, returning at the first error
RECURSIVE Edge(_, _, _, _)
Edge(t, node, deps, i) ==
    IF i > Len(deps) THEN [ok |-> TRUE, d |-> t]
    ELSE LET r == EdgeStep(t, node, deps[i])
         IN IF ~r.ok THEN r ELSE Edge(r.d, node, deps, i + 1)

\* the ends of the edges that leave node n, in the order the edges were made
OutEdges(t, n) ==
    LET sel == SelectSeq(t.adj, LAMBDA e : e[1] = n)
    IN [i \in 1..Len(sel) |-> sel[i][2]]

\* the depth-first search of the topological sort: st is [seen, finish]
RECURSIVE dfs(_, _, _), dfsEdges(_, _, _, _)
dfs(t, n, st) ==
    LET st1 == dfsEdges(t, OutEdges(t, n), 1, [st EXCEPT !.seen = @ \cup {n}])
    IN [st1 EXCEPT !.finish = Append(@, n)]

dfsEdges(t, ends, i, st) ==
    IF i > Len(ends) THEN st
    ELSE dfsEdges(t, ends, i + 1, IF ends[i] \in st.seen THEN st ELSE dfs(t, ends[i], st))

RECURSIVE dfsNodes(_, _, _)
dfsNodes(t, i, st) ==
    IF i > Len(t.nodes) THEN st
    ELSE dfsNodes(t, i + 1, IF t.nodes[i] \in st.seen THEN st ELSE dfs(t, t.nodes[i], st))

\* the topological sort returning the nodes in the order they were finished
TopologicalSortUnreversed(t) ==
    dfsNodes(t, 1, [seen |-> {}, finish |-> <<>>]).finish

\* dg.graph.TopologicalSort(): every unseen node is searched depth-first, in
\* the order the nodes were made, and the list of finished nodes is reversed
TopologicalSort(t) ==
    LET f == dfsNodes(t, 1, [seen |-> {}, finish |-> <<>>]).finish
    IN [i \in 1..Len(f) |-> f[Len(f) + 1 - i]]

\* dag.Sort: the vertices (key and value) of the sorted nodes
Sort(t) ==
    LET sorted == TopologicalSort(t)
    IN [i \in 1..Len(sorted) |-> [Key |-> sorted[i], Value |-> t.val[sorted[i]]]]

\* ---------------------------------------------------------------- container
\* The types a container may produce although an ancestor provides them.
dupes(g) == GroupTypes

RECURSIVE RemoveVertices(_, _, _)
RemoveVertices(d, outs, n) ==
    IF n = 0 THEN d ELSE RemoveVertices(RemoveVertex(d, outs[n]), outs, n - 1)

\* the inner loop of Container.Add: the dependencies of the produced type t
RECURSIVE AddDeps(_, _, _, _)
AddDeps(d, t, deps, j) ==
    IF j > Len(deps) THEN [ok |-> TRUE, d |-> d]
    ELSE LET d1 == AddVertex(d, baseType(deps[j]), NilCtr).d
             r == addEdge(d1, t, baseType(deps[j]))
         IN IF ~r.ok THEN [ok |-> FALSE, d |-> r.d]
            ELSE AddDeps(r.d, t, deps, j + 1)

\* the outer loop of Container.Add without the look at the payload of a vertex
\* that exists: the constructor takes the place of the one registered
RECURSIVE AddOutsOverwrites(_, _, _)
AddOutsOverwrites(d, ctr, i) ==
    IF i > Len(ctr.outs) THEN [ok |-> TRUE, d |-> d]
    ELSE LET t == ctr.outs[i]
             r == AddVertex(d, t, ctr)
             d1 == IF r.ok THEN r.d ELSE SetValue(d, t, ctr)
             r2 == AddDeps(d1, t, ctr.deps, 1)
         IN IF ~r2.ok THEN r2 ELSE AddOutsOverwrites(r2.d, ctr, i + 1)

\* the outer loop of Container.Add: one vertex per produced type
RECURSIVE AddOuts(_, _, _)
AddOuts(d, ctr, i) ==
    IF i > Len(ctr.outs) THEN [ok |-> TRUE, d |-> d]
    ELSE LET t == ctr.outs[i]
             r == AddVertex(d, t, ctr)
         IN IF ~r.ok /\ GetValue(d, t).k # "nil"
            THEN [ok |-> FALSE, d |-> RemoveVertices(d, ctr.outs, i - 1)]
            ELSE LET d1 == IF r.ok THEN r.d ELSE SetValue(d, t, ctr)
                     r2 == AddDeps(d1, t, ctr.deps, 1)
                 IN IF ~r2.ok THEN r2 ELSE AddOuts(r2.d, ctr, i + 1)

\* Container.Add: registers a constructor in the graph of the container
ContainerAdd(d, ctr) ==
    IF Len(ctr.outs) <= 0 THEN [ok |-> FALSE, d |-> d]
    ELSE IF \E j \in 1..Len(ctr.deps) : baseType(ctr.deps[j]) = errType
         THEN [ok |-> FALSE, d |-> d]
    ELSE AddOuts(d, ctr, 1)

\* the container of a new group: Context and Shutdown are registered
NewGroupDag ==
    LET d1 == ContainerAdd(EmptyDag, Ctr(<<ctxType>>, <<>>, FALSE, FALSE)).d
    IN ContainerAdd(d1, Ctr(<<shutType>>, <<>>, FALSE, FALSE)).d

\* the container of the root group: ServerShutdown and the FlagSet as well
RootDag ==
    LET d1 == ContainerAdd(NewGroupDag, Ctr(<<"ServerShutdown">>, <<>>, FALSE, FALSE)).d
    IN ContainerAdd(d1, Ctr(<<"FlagSet">>, <<>>, FALSE, FALSE)).d

\* checkParent that does not look at the dupes of the container
checkParentAlways(g, in) == parent[g] # NoGroup

\* Container.checkParent: look in the parent first unless the type is a dupe
checkParent(g, in) == parent[g] # NoGroup /\ in \notin dupes(g)

\* Container.get: the group whose object table provides the type (NoGroup
\* when the dependency is not found); obj is the object table of each container.
\* The parent is asked with the type as the caller named it, the own table is
\* looked up with its baseType.
RECURSIVE get(_, _, _)
get(obj, g, in) ==
    LET up == IF checkParent(g, in) THEN get(obj, parent[g], in) ELSE NoGroup
    IN IF up # NoGroup THEN up
       ELSE IF baseType(in) \in obj[g] THEN g
       ELSE NoGroup

\* buildArgs that goes on when a parameter is not found
buildArgsIgnoresMissing(obj, g, deps, i) == ""

\* Container.buildArgs: the first parameter type that cannot be resolved
\* ("" when every parameter is resolved)
RECURSIVE buildArgs(_, _, _, _)
buildArgs(obj, g, deps, i) ==
    IF i > Len(deps) THEN ""
    ELSE IF get(obj, g, deps[i]) = NoGroup THEN deps[i]
    ELSE buildArgs(obj, g, deps, i + 1)

\* the groups whose object table each parameter of f is resolved from
Resolved(obj, g, deps) ==
    {Err("arg", get(obj, g, deps[i]), deps[i]) : i \in 1..Len(deps)}

\* Invoke that caches what the function returns, as Create does
InvokeCaches(obj, g, f) ==
    LET missing == buildArgs(obj, g, f.deps, 1)
    IN IF missing # "" THEN [obj |-> obj, ret |-> Err("depNotFound", g, missing)]
       ELSE IF f.fails THEN [obj |-> obj, ret |-> Err("ctor", g, "")]
       ELSE [obj |-> [obj EXCEPT ![g] = @ \cup {f.outs[i] : i \in 1..Len(f.outs)}],
             ret |-> NoErr]

\* Container.Invoke without a value processor: the arguments are built, the
\* function is called and its error is returned; the object tables after it
Invoke(obj, g, f) ==
    LET missing == buildArgs(obj, g, f.deps, 1)
    IN IF missing # "" THEN [obj |-> obj, ret |-> Err("depNotFound", g, missing)]
       ELSE IF f.fails THEN [obj |-> obj, ret |-> Err("ctor", g, "")]
       ELSE [obj |-> obj, ret |-> NoErr]

\* --------------------------------------------------------- building values
\* The state Create works on: the object tables and the hook lists of all groups.
BuildState ==
    [obj |-> objTable, config |-> configHooks, start |-> startHooks,
     stop |-> stopHooks, health |-> healthHooks, log |-> <<>>]

\* An event of a call: entering or leaving Configure, Start or Stop of group
\* g, or a call of the hook of the component of type t of group g, with the
\* error it returned.  The events of Create are, for the vertex t of the
\* container of g: "Skip" (no constructor), "Args" (buildArgs failed with r),
\* "Call" (the constructor was called and returned r); and for a returned
\* value of type t: "Value" (the result processor returned r; with no error
\* the value went to the value processor) and "Store" (cached in objTable).
Ev(ev, g, t, r) == [ev |-> ev, g |-> g, t |-> t, r |-> r]

\* The events of Create are kept for the types of components and for error.
Observed(t) == t \in UserTypes \cup {errType}

Note(S, e) == IF Observed(e.t) THEN [S EXCEPT !.log = Append(@, e)] ELSE S

\* Create's loop over vals caching the values in the container of the root
RECURSIVE StoreValsInRoot(_, _, _, _)
StoreValsInRoot(g, S, returned, i) ==
    IF i > Len(returned) THEN S
    ELSE StoreValsInRoot(g, Note([S EXCEPT !.obj[1] = @ \cup {returned[i]}],
                                 Ev("Store", g, returned[i], NoErr)),
                         returned, i + 1)

\* Create's loop over vals: every value is cached against its baseType
RECURSIVE StoreVals(_, _, _, _)
StoreVals(g, S, returned, i) ==
    IF i > Len(returned) THEN S
    ELSE StoreVals(g, Note([S EXCEPT !.obj[g] = @ \cup {returned[i]}],
                           Ev("Store", g, returned[i], NoErr)),
                   returned, i + 1)

\* group.addLCHooks putting the value at the head of the lists
addLCHooksAtHead(S, g, t) ==
    [S EXCEPT
        !.config[g] = IF "config" \in Implements(t) THEN <<t>> \o @ ELSE @,
        !.start[g] = IF "start" \in Implements(t) THEN <<t>> \o @ ELSE @,
        !.stop[g] = IF "stop" \in Implements(t) THEN <<t>> \o @ ELSE @,
        !.health[g] = IF "health" \in Implements(t) THEN <<t>> \o @ ELSE @]

\* group.addLCHooks: a value of type t built in group g is appended to the
\* list of every lifecycle interface it implements
addLCHooks(S, g, t) ==
    [S EXCEPT
        !.config[g] = IF "config" \in Implements(t) THEN Append(@, t) ELSE @,
        !.start[g] = IF "start" \in Implements(t) THEN Append(@, t) ELSE @,
        !.stop[g] = IF "stop" \in Implements(t) THEN Append(@, t) ELSE @,
        !.health[g] = IF "health" \in Implements(t) THEN Append(@, t) ELSE @]

\* the values a call of the constructor returns: a trailing error is one of them
Returned(ctr) == IF ctr.hasErr THEN Append(ctr.outs, errType) ELSE ctr.outs

\* Invoke's loop over the returned values with Create's result processor:
\* a type that get already finds is rejected, otherwise the value goes to the
\* group's value processor and is remembered in vals
RECURSIVE resProc(_, _, _, _, _)
resProc(g, S, returned, i, vals) ==
    IF i > Len(returned) THEN [S |-> S, vals |-> vals, ret |-> NoErr]
    ELSE LET t == returned[i]
         IN IF get(S.obj, g, t) # NoGroup
            THEN [S |-> Note(S, Ev("Value", g, t, Err("present", g, t))),
                  vals |-> vals, ret |-> Err("present", g, t)]
            ELSE resProc(g, Note(addLCHooks(S, g, t), Ev("Value", g, t, NoErr)),
                         returned, i + 1, vals \cup {t})

\* the loop body of Container.Create keeping the values of a constructor that
\* returned a non-nil error
CreateStepKeepsResults(g, it, v) ==
    LET ctr == dagVal[g][v]
        missing == buildArgs(it.S.obj, g, ctr.deps, 1)
        r == resProc(g, Note(it.S, Ev("Call", g, v, IF ctr.fails THEN Err("ctor", g, v) ELSE NoErr)),
                     Returned(ctr), 1, {})
    IN IF ctr.k = "nil"
       THEN [it EXCEPT !.done = @ \cup {v}, !.S = Note(@, Ev("Skip", g, v, NoErr))]
       ELSE IF missing # ""
       THEN [it EXCEPT !.S = Note(@, Ev("Args", g, v, Err("depNotFound", g, missing))),
                       !.ret = Err("depNotFound", g, missing)]
       ELSE IF r.ret # NoErr THEN [it EXCEPT !.S = r.S, !.ret = r.ret]
       ELSE [done |-> it.done \cup {v},
             S |-> StoreVals(g, r.S, Returned(ctr), 1),
             ret |-> IF ctr.fails THEN Err("ctor", g, v) ELSE NoErr]

\* One iteration of Container.Create's loop, for the vertex v of the sorted
\* graph: it is a record [done, S, ret] of the vertices handled so far, the
\* build state and the error Create returns (NoErr while it is running)
CreateStep(g, it, v) ==
    LET ctr == dagVal[g][v]
        missing == buildArgs(it.S.obj, g, ctr.deps, 1)
        r == resProc(g, Note(it.S, Ev("Call", g, v, NoErr)), Returned(ctr), 1, {})
    IN IF ctr.k = "nil"
       THEN [it EXCEPT !.done = @ \cup {v}, !.S = Note(@, Ev("Skip", g, v, NoErr))]
       ELSE IF missing # ""
       THEN [it EXCEPT !.S = Note(@, Ev("Args", g, v, Err("depNotFound", g, missing))),
                       !.ret = Err("depNotFound", g, missing)]
       ELSE IF ctr.fails
       THEN [it EXCEPT !.S = Note(@, Ev("Call", g, v, Err("ctor", g, v))),
                       !.ret = Err("ctor", g, v)]
       ELSE IF r.ret # NoErr THEN [it EXCEPT !.S = r.S, !.ret = r.ret]
       ELSE [done |-> it.done \cup {v},
             S |-> StoreVals(g, r.S, Returned(ctr), 1),
             ret |-> NoErr]

\* Container.Create over every order c.dag.Sort() may return: the set of
\* records [done, S, ret] Create can end in, from the set its of records reached
RECURSIVE CreateLoop(_, _)
CreateLoop(g, its) ==
    LET d == [val |-> dagVal[g], edges |-> dagEdges[g]]
        running == {it \in its : it.ret = NoErr /\ Ready(d, it.done) # {}}
    IN IF running = {} THEN its
       ELSE CreateLoop(g, (its \ running) \cup
                UNION {{CreateStep(g, it, v) : v \in Ready(d, it.done)} : it \in running})

ContainerCreate(g, S) ==
    {[S |-> it.S, ret |-> it.ret] : it \in CreateLoop(g, {[done |-> {}, S |-> S, ret |-> NoErr]})}

\* the child groups in g.children
ChildSet(g) == {children[g][n] : n \in Names} \ {NoGroup}

\* group.Create: the container's Create, then Create of every child group (in
\* the order the children map is ranged over), stopping at the first error
RECURSIVE GroupCreate(_, _), ChildrenCreate(_, _)
GroupCreate(g, S) ==
    UNION {IF o.ret # NoErr THEN {o} ELSE ChildrenCreate(ChildSet(g), o.S)
           : o \in ContainerCreate(g, S)}

ChildrenCreate(rem, S) ==
    IF rem = {} THEN {[S |-> S, ret |-> NoErr]}
    ELSE UNION {UNION {IF o.ret # NoErr THEN {o} ELSE ChildrenCreate(rem \ {c}, o.S)
                       : o \in GroupCreate(c, S)} : c \in rem}

\* ---------------------------------------------------------------- lifecycle
\* The orders `range g.children` may take: for every group a sequence of its
\* children without repetition.
Perms(S) ==
    {q \in [1..Cardinality(S) -> S] : \A i, j \in 1..Cardinality(S) : q[i] = q[j] => i = j}

ChildOrders ==
    {f \in [GroupIds -> UNION {Perms(ChildSet(g)) : g \in GroupIds}] :
        \A g \in GroupIds : f[g] \in Perms(ChildSet(g))}

\* g.c.Invoke(h.Start, nil) and g.c.Invoke(h.Stop, nil): the hook takes the
\* group's Context, which buildArgs resolves; fs is the set of errors the
\* hooks return when they are called
InvokeHook(kind, g, t, fs) ==
    IF get(objTable, g, ctxType) = NoGroup
    THEN [called |-> FALSE, ret |-> Err("depNotFound", g, ctxType)]
    ELSE [called |-> TRUE, ret |-> IF Err(kind, g, t) \in fs THEN Err(kind, g, t) ELSE NoErr]

\* the guard of the loop over the stop hooks, i counting down from len-1
StopLoopCond(i) == i = 0

\* the loop of group.Stop over g.stopHooks, from index i (0-based) down
RECURSIVE StopHooks(_, _, _, _, _)
StopHooks(g, i, fs, e, log) ==
    IF ~StopLoopCond(i) THEN [e |-> e, log |-> log]
    ELSE LET t == stopHooks[g][i + 1]
             r == InvokeHook("Stop", g, t, fs)
         IN StopHooks(g, i - 1, fs,
                      IF r.ret # NoErr THEN r.ret ELSE e,
                      IF r.called THEN Append(log, Ev("Stop", g, t, r.ret)) ELSE log)

RECURSIVE Stop(_, _, _), StopChildren(_, _, _, _, _, _)

\* group.Stop with the two loops exchanged: the stop hooks of the group are
\* invoked before the children are stopped
StopHooksBeforeChildren(g, fs, ord) ==
    LET log0 == <<Ev("stop.enter", g, "", NoErr)>>
        h == IF Len(stopHooks[g]) > 0
             THEN StopHooks(g, Len(stopHooks[g]) - 1, fs, NoErr, log0)
             ELSE [e |-> NoErr, log |-> log0]
        c == StopChildren(ord[g], 1, fs, ord, h.e, h.log)
    IN [ret |-> c.e, log |-> Append(c.log, Ev("stop.exit", g, "", c.e))]

\* group.Stop: the children first, then the stop hooks of the group
Stop(g, fs, ord) ==
    LET c == StopChildren(ord[g], 1, fs, ord, NoErr, <<Ev("stop.enter", g, "", NoErr)>>)
        h == IF Len(stopHooks[g]) > 0
             THEN StopHooks(g, Len(stopHooks[g]) - 1, fs, c.e, c.log)
             ELSE c
    IN [ret |-> h.e, log |-> Append(h.log, Ev("stop.exit", g, "", h.e))]

StopChildren(cs, j, fs, ord, e, log) ==
    IF j > Len(cs) THEN [e |-> e, log |-> log]
    ELSE LET r == Stop(cs[j], fs, ord)
         IN StopChildren(cs, j + 1, fs, ord, r.ret, log \o r.log)

\* the loop of group.Start over g.startHooks; a failing hook defers g.Stop()
\* and returns the error
RECURSIVE StartHooks(_, _, _, _, _)
RECURSIVE StartChildrenIgnoreError(_, _, _, _, _), StartChildrenStopParent(_, _, _, _, _)
StartHooks(g, i, fs, ord, log) ==
    IF i > Len(startHooks[g]) THEN [ret |-> NoErr, log |-> log]
    ELSE LET t == startHooks[g][i]
             r == InvokeHook("Start", g, t, fs)
             log1 == IF r.called THEN Append(log, Ev("Start", g, t, r.ret)) ELSE log
         IN IF r.ret # NoErr
            THEN [ret |-> r.ret, log |-> log1 \o Stop(g, fs, ord).log]
            ELSE StartHooks(g, i + 1, fs, ord, log1)

RECURSIVE Start(_, _, _), StartChildren(_, _, _, _, _)

\* group.Start without the return in the hook loop's error branch: the children
\* are started although a start hook of the group failed
StartDescendsAfterFailure(g, fs, ord) ==
    LET h == StartHooks(g, 1, fs, ord, <<Ev("start.enter", g, "", NoErr)>>)
        c == StartChildren(ord[g], 1, fs, ord, h.log)
        ret == IF h.ret # NoErr THEN h.ret ELSE c.ret
    IN [ret |-> ret, log |-> Append(c.log, Ev("start.exit", g, "", ret))]

\* group.Start: the start hooks of the group, then Start of the children
Start(g, fs, ord) ==
    LET h == StartHooks(g, 1, fs, ord, <<Ev("start.enter", g, "", NoErr)>>)
        c == IF h.ret # NoErr THEN h ELSE StartChildren(ord[g], 1, fs, ord, h.log)
    IN [ret |-> c.ret, log |-> Append(c.log, Ev("start.exit", g, "", c.ret))]

\* the loop over the children dropping the error of a child's Start
StartChildrenIgnoreError(cs, j, fs, ord, log) ==
    IF j > Len(cs) THEN [ret |-> NoErr, log |-> log]
    ELSE StartChildrenIgnoreError(cs, j + 1, fs, ord, log \o Start(cs[j], fs, ord).log)

\* the loop over the children stopping the parent as well when a child's
\* Start fails (the rollback of the hook loop repeated for the children)
StartChildrenStopParent(cs, j, fs, ord, log) ==
    IF j > Len(cs) THEN [ret |-> NoErr, log |-> log]
    ELSE LET r == Start(cs[j], fs, ord)
         IN IF r.ret # NoErr
            THEN [ret |-> r.ret, log |-> (log \o r.log) \o Stop(parent[cs[j]], fs, ord).log]
            ELSE StartChildrenStopParent(cs, j + 1, fs, ord, log \o r.log)

StartChildren(cs, j, fs, ord, log) ==
    IF j > Len(cs) THEN [ret |-> NoErr, log |-> log]
    ELSE LET r == Start(cs[j], fs, ord)
         IN IF r.ret # NoErr THEN [ret |-> r.ret, log |-> log \o r.log]
            ELSE StartChildren(cs, j + 1, fs, ord, log \o r.log)

RECURSIVE ConfigHooksLoop(_, _, _, _)

\* the loop over g.configHooks without the return in the error branch of the
\* Configure call: the error is kept and the next hook is configured
RECURSIVE ConfigHooksLoopKeepsGoing(_, _, _, _)
ConfigHooksLoopKeepsGoing(g, i, fs, log) ==
    IF i > Len(configHooks[g]) THEN [ret |-> NoErr, log |-> log]
    ELSE LET t == configHooks[g][i]
             got == IF Err("Get", g, t) \in fs THEN Err("Get", g, t) ELSE NoErr
             cfd == IF Err("Configure", g, t) \in fs THEN Err("Configure", g, t) ELSE NoErr
             log1 == Append(log, Ev("Get", g, t, got))
             log2 == Append(log1, Ev("Configure", g, t, cfd))
             rest == ConfigHooksLoopKeepsGoing(g, i + 1, fs, log2)
         IN IF got # NoErr THEN [ret |-> got, log |-> log1]
            ELSE IF cfd # NoErr THEN [ret |-> cfd, log |-> rest.log]
            ELSE rest

\* the loop over g.configHooks without the return in the error branch of the
\* store lookup: the Configure hook is called whatever g.store.Get returned
RECURSIVE ConfigHooksLoopIgnoresGet(_, _, _, _)
ConfigHooksLoopIgnoresGet(g, i, fs, log) ==
    IF i > Len(configHooks[g]) THEN [ret |-> NoErr, log |-> log]
    ELSE LET t == configHooks[g][i]
             got == IF Err("Get", g, t) \in fs THEN Err("Get", g, t) ELSE NoErr
             cfd == IF Err("Configure", g, t) \in fs THEN Err("Configure", g, t) ELSE NoErr
             log1 == Append(log, Ev("Get", g, t, got))
             log2 == Append(log1, Ev("Configure", g, t, cfd))
         IN IF cfd # NoErr THEN [ret |-> cfd, log |-> log2]
            ELSE ConfigHooksLoopIgnoresGet(g, i + 1, fs, log2)

\* the loop of group.Configure over g.configHooks: the configuration of the
\* component is read from the store, then its Configure hook is called
ConfigHooksLoop(g, i, fs, log) ==
    IF i > Len(configHooks[g]) THEN [ret |-> NoErr, log |-> log]
    ELSE LET t == configHooks[g][i]
             got == IF Err("Get", g, t) \in fs THEN Err("Get", g, t) ELSE NoErr
             cfd == IF Err("Configure", g, t) \in fs THEN Err("Configure", g, t) ELSE NoErr
             log1 == Append(log, Ev("Get", g, t, got))
             log2 == Append(log1, Ev("Configure", g, t, cfd))
         IN IF got # NoErr THEN [ret |-> got, log |-> log1]
            ELSE IF cfd # NoErr THEN [ret |-> cfd, log |-> log2]
            ELSE ConfigHooksLoop(g, i + 1, fs, log2)

RECURSIVE Configure(_, _, _), ConfigureChildren(_, _, _, _, _)

\* group.Configure with g.store.Close() called at the end of the function
\* instead of deferred: the returns of the error branches skip it
ConfigureClosesAtEnd(g, fs, ord) ==
    LET root == parent[g] = NoGroup
        log0 == <<Ev("configure.enter", g, "", NoErr)>>
        parse == IF root /\ Err("Parse", g, "") \in fs THEN Err("Parse", g, "") ELSE NoErr
        open == IF root /\ Err("Open", g, "") \in fs THEN Err("Open", g, "") ELSE NoErr
        log1 == IF root THEN Append(log0, Ev("Parse", g, "", parse)) ELSE log0
        log2 == IF root THEN Append(log1, Ev("Open", g, "", open)) ELSE log1
        h == ConfigHooksLoop(g, 1, fs, log2)
        c == IF h.ret # NoErr THEN h ELSE ConfigureChildren(ord[g], 1, fs, ord, h.log)
        closed == IF root /\ c.ret = NoErr
                  THEN Append(c.log, Ev("Close", g, "", NoErr)) ELSE c.log
    IN IF parse # NoErr
       THEN [ret |-> parse, log |-> Append(log1, Ev("configure.exit", g, "", parse))]
       ELSE IF open # NoErr
       THEN [ret |-> open, log |-> Append(log2, Ev("configure.exit", g, "", open))]
       ELSE [ret |-> c.ret, log |-> Append(closed, Ev("configure.exit", g, "", c.ret))]

\* group.Configure: the root parses the command line and opens the store, which
\* it closes when it returns; then the hooks of the group, then the children
Configure(g, fs, ord) ==
    LET root == parent[g] = NoGroup
        log0 == <<Ev("configure.enter", g, "", NoErr)>>
        parse == IF root /\ Err("Parse", g, "") \in fs THEN Err("Parse", g, "") ELSE NoErr
        open == IF root /\ Err("Open", g, "") \in fs THEN Err("Open", g, "") ELSE NoErr
        log1 == IF root THEN Append(log0, Ev("Parse", g, "", parse)) ELSE log0
        log2 == IF root THEN Append(log1, Ev("Open", g, "", open)) ELSE log1
        h == ConfigHooksLoop(g, 1, fs, log2)
        c == IF h.ret # NoErr THEN h ELSE ConfigureChildren(ord[g], 1, fs, ord, h.log)
        closed == IF root THEN Append(c.log, Ev("Close", g, "", NoErr)) ELSE c.log
    IN IF parse # NoErr
       THEN [ret |-> parse, log |-> Append(log1, Ev("configure.exit", g, "", parse))]
       ELSE IF open # NoErr
       THEN [ret |-> open, log |-> Append(log2, Ev("configure.exit", g, "", open))]
       ELSE [ret |-> c.ret, log |-> Append(closed, Ev("configure.exit", g, "", c.ret))]

ConfigureChildren(cs, j, fs, ord, log) ==
    IF j > Len(cs) THEN [ret |-> NoErr, log |-> log]
    ELSE LET r == Configure(cs[j], fs, ord)
         IN IF r.ret # NoErr THEN [ret |-> r.ret, log |-> log \o r.log]
            ELSE ConfigureChildren(cs, j + 1, fs, ord, log \o r.log)

\* the loop of group.IsHealthy over g.healthHooks; sick is the set of hooks
\* that report false when they are asked
RECURSIVE HealthHooks(_, _, _, _)
HealthHooks(g, i, sick, log) ==
    IF i > Len(healthHooks[g]) THEN [ok |-> TRUE, log |-> log]
    ELSE LET t == healthHooks[g][i]
             r == Err("IsHealthy", g, t) \notin sick
             log1 == Append(log, Ev("IsHealthy", g, t, IF r THEN NoErr ELSE Err("IsHealthy", g, t)))
         IN IF ~r THEN [ok |-> FALSE, log |-> log1]
            ELSE HealthHooks(g, i + 1, sick, log1)

RECURSIVE IsHealthy(_, _, _), HealthChildren(_, _, _, _, _)

\* group.IsHealthy without the loop over the children
IsHealthyLocal(g, sick, ord) ==
    HealthHooks(g, 1, sick, <<>>)

\* group.IsHealthy: the health hooks of the group, then IsHealthy of the children
IsHealthy(g, sick, ord) ==
    LET h == HealthHooks(g, 1, sick, <<>>)
    IN IF ~h.ok THEN h ELSE HealthChildren(ord[g], 1, sick, ord, h.log)

HealthChildren(cs, j, sick, ord, log) ==
    IF j > Len(cs) THEN [ok |-> TRUE, log |-> log]
    ELSE LET r == IsHealthy(cs[j], sick, ord)
         IN IF ~r.ok THEN [ok |-> FALSE, log |-> log \o r.log]
            ELSE HealthChildren(cs, j + 1, sick, ord, log \o r.log)

\* the groups of the subtree of g (g and the descendants reached through the
\* children maps)
RECURSIVE Subtree(_)
Subtree(g) == {g} \cup UNION {Subtree(c) : c \in ChildSet(g)}

\* the errors the hooks reached by a call on g may return
HookErrs(kind, list, g) ==
    UNION {{Err(kind, h, list[h][i]) : i \in 1..Len(list[h])} : h \in Subtree(g)}

\* ------------------------------------------------------------------ contexts
\* newContext with the parent forgotten: every context derives from Background
newContextBackground(p) == NoGroup

\* newContext: the context of a group is derived with context.WithCancel from
\* the context of the parent group p, from context.Background() (NoGroup)
\* when there is no parent
newContext(p) == IF p # NoGroup THEN p ELSE NoGroup

\* context h is g's or derived, in any number of steps, from the context of g
RECURSIVE DerivedFrom(_, _)
DerivedFrom(h, g) ==
    \/ h = g
    \/ ctxParent[h] # NoGroup /\ DerivedFrom(ctxParent[h], g)

\* srvCtx.Shutdown: sc.cancelFunc() cancels the context and every context
\* derived from it
\* a cancel function that cancels the contexts of all groups
cancelFuncAll(g) == 1..nGroups

cancelFunc(g) == cancelled \cup {h \in 1..nGroups : DerivedFrom(h, g)}

\* -------------------------------------------------------------- graph calls
\* The keys and the values given to the graph, and the dependency lists of
\* one Edge call.
MaxDeps == 2
DagKeys == UserTypes
DagValues == {NilCtr, Ctr(<<"A">>, <<>>, FALSE, FALSE)}
DepLists == UNION {[1..n -> DagKeys] : n \in 0..MaxDeps}

NoDagCall ==
    [op |-> "none", before |-> NewDAG, key |-> "", val |-> NilCtr, deps |-> <<>>,
     ok |-> TRUE, out |-> <<>>]

\* dag.NewVertex(key, val)
CallNewVertex(key, val) ==
    /\ tlast = NoDagCall
    /\ LET r == NewVertex(tg, key, val)
       IN /\ tg' = r.d
          /\ tlast' = [op |-> "vertex", before |-> tg, key |-> key, val |-> val,
                       deps |-> <<>>, ok |-> r.ok, out |-> <<>>]
    /\ UNCHANGED <<groupVars, tc, clast, stopHist, procVars>>

\* dag.Edge(node, dependencies...)
CallEdge(node, deps) ==
    /\ tlast = NoDagCall
    /\ LET r == Edge(tg, node, deps, 1)
       IN /\ tg' = r.d
          /\ tlast' = [op |-> "edge", before |-> tg, key |-> node, val |-> NilCtr,
                       deps |-> deps, ok |-> r.ok, out |-> <<>>]
    /\ UNCHANGED <<groupVars, tc, clast, stopHist, procVars>>

\* dag.Sort()
CallSort ==
    /\ tlast = NoDagCall
    /\ tlast' = [op |-> "sort", before |-> tg, key |-> "", val |-> NilCtr,
                 deps |-> <<>>, ok |-> TRUE, out |-> Sort(tg)]
    /\ UNCHANGED <<groupVars, tg, tc, clast, stopHist, procVars>>

DagReturn ==
    /\ tlast # NoDagCall
    /\ tlast' = NoDagCall
    /\ UNCHANGED <<groupVars, tg, tc, clast, stopHist, procVars>>

\* ---------------------------------------------------------- container calls
\* The constructors given to the container: one or two results, no or one
\* parameter (an error among the parameters is refused).
MaxCtrAdds == 3
DiCtrs ==
    {Ctr(outs, deps, FALSE, FALSE) :
        outs \in UNION {[1..n -> UserTypes] : n \in 1..2},
        deps \in UNION {[1..n -> UserTypes \cup {errType}] : n \in 0..1}}

NoAddCall ==
    [op |-> "none", before |-> EmptyDag, regs |-> <<>>, ctr |-> NilCtr, ok |-> TRUE]

\* Container.Add(ctr)
CallAdd(ctr) ==
    /\ clast = NoAddCall
    /\ tc.n < MaxCtrAdds
    /\ LET r == ContainerAdd(tc.d, ctr)
       IN /\ tc' = [d |-> r.d, regs |-> IF r.ok THEN Append(tc.regs, ctr) ELSE tc.regs,
                    n |-> tc.n + 1]
          /\ clast' = [op |-> "add", before |-> tc.d, regs |-> tc.regs, ctr |-> ctr,
                       ok |-> r.ok]
    /\ UNCHANGED <<groupVars, tg, tlast, stopHist, procVars>>

AddReturn ==
    /\ clast # NoAddCall
    /\ clast' = NoAddCall
    /\ UNCHANGED <<groupVars, tg, tlast, tc, stopHist, procVars>>

\* ------------------------------------------------------------ signal router
\* The router of package signal and the goroutines that use it: the caller of
\* Start, the receive loop Start spawns, and one other goroutine calling
\* Handle, Reset and Ignore.
Sigs == {"INT", "TERM"}

Threads == {"start", "loop", "api"}

\* what a registered handler does when it is called inside the loop: nothing
\* to the router, or a call of the router's Handle, Reset or Ignore for the
\* signal it was given
Handlers == {"plain", "handle", "reset", "ignore"}

NoHandler == "none"

NoOp == [op |-> "none", sig |-> "", h |-> NoHandler]

\* signal.New: no signal is handled or ignored, the router is not running,
\* nobody holds the lock
NewRouter ==
    [signals |-> [sig \in Sigs |-> NoHandler],
     ignSignals |-> {},
     running |-> FALSE,
     readers |-> {},
     writer |-> "none",
     done |-> FALSE,
     pc |-> [th \in Threads |-> IF th = "loop" THEN "off" ELSE "idle"],
     pend |-> [th \in Threads |-> NoOp],
     sig |-> "",
     lastOp |-> NoOp]

IsHandled(r, sig) == r.signals[sig] # NoHandler

IsIgnored(r, sig) == sig \in r.ignSignals

RouterIsHealthy(r) == r.running

\* the mutant of Handle that leaves the signal in the ignored set
HandleKeepsIgnored(r, sig, h) ==
    [r EXCEPT !.signals[sig] = h]

\* the bodies of Handle, Reset and Ignore, run under the write lock
Handle(r, sig, h) ==
    [r EXCEPT !.signals[sig] = h, !.ignSignals = @ \ {sig}]

Reset(r, sig) ==
    [r EXCEPT !.signals[sig] = NoHandler]

Ignore(r, sig) ==
    [r EXCEPT !.signals[sig] = NoHandler, !.ignSignals = @ \cup {sig}]

RouterUnchanged ==
    UNCHANGED <<groupVars, tg, tlast, tc, clast, stopHist, main>>

\* router.Start up to its s.lock.Lock(): the goroutine is spawned and the
\* caller goes on to take the write lock
RouterStart ==
    /\ rt.pc["start"] = "idle"
    /\ rt' = [rt EXCEPT !.pc["start"] = "lock", !.pc["loop"] = "select",
                        !.pend["start"] = [NoOp EXCEPT !.op = "run"]]
    /\ RouterUnchanged

\* the context the router was started with is cancelled
RouterCancel ==
    /\ ~rt.done
    /\ rt' = [rt EXCEPT !.done = TRUE]
    /\ RouterUnchanged

\* the loop's select takes the Done case: it returns, and the deferred
\* function goes on to take the write lock
LoopDone ==
    /\ rt.pc["loop"] = "select"
    /\ rt.done
    /\ rt' = [rt EXCEPT !.pc["loop"] = "lock",
                        !.pend["loop"] = [NoOp EXCEPT !.op = "exit"]]
    /\ RouterUnchanged

\* the loop's select takes a signal from signalCh; the operating system
\* relays the signals Notify was called for
LoopRecv(sig) ==
    /\ rt.pc["loop"] = "select"
    /\ IsHandled(rt, sig)
    /\ rt' = [rt EXCEPT !.pc["loop"] = "rlock", !.sig = sig]
    /\ RouterUnchanged

\* s.lock.RLock() in the loop
LoopRLock ==
    /\ rt.pc["loop"] = "rlock"
    /\ rt.writer = "none"
    /\ rt' = [rt EXCEPT !.pc["loop"] = "rheld", !.readers = @ \cup {"loop"}]
    /\ RouterUnchanged

\* the lookup and the call of the handler, under the read lock: a handler
\* that calls Handle, Reset or Ignore goes on to take the write lock with
\* the read lock still held; otherwise the read lock is released
LoopDispatch ==
    /\ rt.pc["loop"] = "rheld"
    /\ LET h == rt.signals[rt.sig]
       IN IF h \in {"handle", "reset", "ignore"}
          THEN rt' = [rt EXCEPT !.pc["loop"] = "lock",
                               !.pend["loop"] = [op |-> h, sig |-> rt.sig, h |-> "plain"]]
          ELSE rt' = [rt EXCEPT !.pc["loop"] = "select", !.readers = @ \ {"loop"},
                               !.sig = ""]
    /\ RouterUnchanged

\* another goroutine calls Handle, Reset or Ignore
CallHandle(sig, h) ==
    /\ rt.pc["api"] = "idle"
    /\ rt' = [rt EXCEPT !.pc["api"] = "lock",
                        !.pend["api"] = [op |-> "handle", sig |-> sig, h |-> h]]
    /\ RouterUnchanged

CallReset(sig) ==
    /\ rt.pc["api"] = "idle"
    /\ rt' = [rt EXCEPT !.pc["api"] = "lock",
                        !.pend["api"] = [op |-> "reset", sig |-> sig, h |-> NoHandler]]
    /\ RouterUnchanged

CallIgnore(sig) ==
    /\ rt.pc["api"] = "idle"
    /\ rt' = [rt EXCEPT !.pc["api"] = "lock",
                        !.pend["api"] = [op |-> "ignore", sig |-> sig, h |-> NoHandler]]
    /\ RouterUnchanged

\* s.lock.Lock(): granted when nobody reads and nobody writes
Lock(th) ==
    /\ rt.pc[th] = "lock"
    /\ rt.writer = "none"
    /\ rt.readers = {}
    /\ rt' = [rt EXCEPT !.pc[th] = "held", !.writer = th]
    /\ RouterUnchanged

\* what a goroutine does under the write lock, and where it is after Unlock
Effect(r, o) ==
    CASE o.op = "run" -> [r EXCEPT !.running = TRUE]
      [] o.op = "exit" -> [r EXCEPT !.running = FALSE]
      [] o.op = "handle" -> [Handle(r, o.sig, o.h) EXCEPT !.lastOp = o]
      [] o.op = "reset" -> [Reset(r, o.sig) EXCEPT !.lastOp = o]
      [] o.op = "ignore" -> [Ignore(r, o.sig) EXCEPT !.lastOp = o]

After(th, o) ==
    CASE o.op = "run" -> "done"
      [] o.op = "exit" -> "exited"
      [] th = "loop" -> "select"
      [] OTHER -> "idle"

\* the critical section and s.lock.Unlock(); a handler that was granted the
\* write lock returns to the loop, which releases its read lock
Unlock(th) ==
    /\ rt.pc[th] = "held"
    /\ LET o == rt.pend[th]
           r == Effect(rt, o)
       IN rt' = [r EXCEPT !.pc[th] = After(th, o), !.writer = "none",
                         !.pend[th] = NoOp, !.readers = @ \ {th}]
    /\ RouterUnchanged

\* ------------------------------------------------------------------- groups
NoCall == [op |-> "none", g |-> NoGroup, arg |-> {}, log |-> <<>>, ret |-> NoErr, ok |-> TRUE]

Init ==
    /\ nGroups = 1
    /\ parent = [g \in GroupIds |-> NoGroup]
    /\ children = [g \in GroupIds |-> [n \in Names |-> NoGroup]]
    /\ dagVal = [g \in GroupIds |-> IF g = 1 THEN RootDag.val ELSE EmptyDag.val]
    /\ dagEdges = [g \in GroupIds |-> {}]
    /\ objTable = [g \in GroupIds |-> {}]
    /\ regs = [g \in GroupIds |-> <<>>]
    /\ nAdds = 0
    /\ configHooks = [g \in GroupIds |-> <<>>]
    /\ startHooks = [g \in GroupIds |-> <<>>]
    /\ stopHooks = [g \in GroupIds |-> <<>>]
    /\ healthHooks = [g \in GroupIds |-> <<>>]
    /\ phase = "init"
    /\ ctxParent = [g \in GroupIds |-> newContext(NoGroup)]
    /\ cancelled = {}
    /\ last = NoCall
    /\ tg = NewDAG
    /\ tlast = NoDagCall
    /\ tc = [d |-> EmptyDag, regs |-> <<>>, n |-> 0]
    /\ clast = NoAddCall
    /\ stopHist = [once |-> {}, again |-> {}]
    /\ main = [pc |-> "init", trace |-> <<>>]
    /\ rt = NewRouter

Groups == 1..nGroups

\* group.New: a child group under a name of the parent's children map
New(g, name) ==
    /\ phase = "init"
    /\ last = NoCall
    /\ nGroups < MaxGroups
    /\ LET grp == nGroups + 1
       IN /\ nGroups' = grp
          /\ parent' = [parent EXCEPT ![grp] = g]
          /\ children' = [children EXCEPT ![g][name] = grp]
          /\ dagVal' = [dagVal EXCEPT ![grp] = NewGroupDag.val]
          /\ dagEdges' = [dagEdges EXCEPT ![grp] = NewGroupDag.edges]
          /\ ctxParent' = [ctxParent EXCEPT ![grp] = newContext(g)]
          /\ cancelled' = IF newContext(g) \in cancelled
                          THEN cancelled \cup {grp} ELSE cancelled
          /\ last' = [op |-> "new", g |-> grp,
                      arg |-> IF children[g][name] # NoGroup
                              THEN {Err("name", children[g][name], name)} ELSE {},
                      log |-> <<>>, ret |-> NoErr, ok |-> TRUE]
    /\ UNCHANGED <<objTable, regs, nAdds, hookVars, phase, graphVars>>

\* the result types of ctr for which the container of g holds a constructor
Claimed(g, ctr) ==
    {Err("claimed", g, ctr.outs[i]) : i \in {j \in 1..Len(ctr.outs) : dagVal[g][ctr.outs[j]].k = "ctr"}}

\* group.Add: registers a component constructor with the group's container
Add(g, ctr) ==
    /\ phase = "init"
    /\ last = NoCall
    /\ nAdds < MaxAdds
    /\ LET r == ContainerAdd([val |-> dagVal[g], edges |-> dagEdges[g]], ctr)
       IN /\ dagVal' = [dagVal EXCEPT ![g] = r.d.val]
          /\ dagEdges' = [dagEdges EXCEPT ![g] = r.d.edges]
          /\ regs' = [regs EXCEPT ![g] = IF r.ok THEN Append(@, ctr) ELSE @]
          /\ last' = [op |-> "add", g |-> g, arg |-> Claimed(g, ctr), log |-> <<>>,
                      ret |-> IF r.ok THEN NoErr ELSE Err("add", g, ctr.outs[1]),
                      ok |-> TRUE]
    /\ nAdds' = nAdds + 1
    /\ UNCHANGED <<treeVars, objTable, hookVars, phase, ctxVars, graphVars>>

\* group.Create: builds the values of the group and of its descendants
Create(g) ==
    /\ phase = "init"
    /\ last = NoCall
    /\ parent[g] = NoGroup
    /\ \E o \in GroupCreate(g, BuildState) :
        /\ phase' = IF o.ret = NoErr THEN "built" ELSE "failed"
        /\ objTable' = o.S.obj
        /\ configHooks' = o.S.config
        /\ startHooks' = o.S.start
        /\ stopHooks' = o.S.stop
        /\ healthHooks' = o.S.health
        /\ last' = [op |-> "create", g |-> g, arg |-> {}, log |-> o.S.log, ret |-> o.ret, ok |-> TRUE]
    /\ UNCHANGED <<treeVars, dagVars, ctxVars, graphVars>>

\* group.Create called on a group that has a parent, by whoever holds the
\* group, before the root is built: the values of that group and of its
\* descendants are built while its ancestors have none yet
CreateChild(g) ==
    /\ phase = "init"
    /\ last = NoCall
    /\ parent[g] # NoGroup
    /\ \E o \in GroupCreate(g, BuildState) :
        /\ objTable' = o.S.obj
        /\ configHooks' = o.S.config
        /\ startHooks' = o.S.start
        /\ stopHooks' = o.S.stop
        /\ healthHooks' = o.S.health
        /\ last' = [op |-> "create", g |-> g, arg |-> {}, log |-> o.S.log, ret |-> o.ret, ok |-> TRUE]
    /\ UNCHANGED <<treeVars, dagVars, phase, ctxVars, graphVars>>

\* group.Invoke: a function is called with its parameters resolved from the
\* container of the group.  The call records where each parameter came from,
\* the results of the function and whether it returned a non-nil error.
CallInvoke(g, f) ==
    /\ phase = "built"
    /\ last = NoCall
    /\ LET r == Invoke(objTable, g, f)
       IN /\ objTable' = r.obj
          /\ last' = [op |-> "invoke", g |-> g,
                      arg |-> Resolved(objTable, g, f.deps) \cup
                              {Err("result", g, f.outs[i]) : i \in 1..Len(f.outs)} \cup
                              (IF f.fails THEN {Err("returns", g, "")} ELSE {}),
                      log |-> <<>>, ret |-> r.ret, ok |-> TRUE]
    /\ UNCHANGED <<treeVars, dagVars, hookVars, phase, ctxVars, graphVars>>

\* a call of Configure on a group of the tree
CallConfigure(g) ==
    /\ phase = "built"
    /\ last = NoCall
    /\ \E fs \in SUBSET (HookErrs("Get", configHooks, g) \cup
                         HookErrs("Configure", configHooks, g) \cup
                         {Err("Parse", g, ""), Err("Open", g, "")}),
          ord \in ChildOrders :
        LET r == Configure(g, fs, ord)
        IN last' = [op |-> "configure", g |-> g, arg |-> {}, log |-> r.log, ret |-> r.ret, ok |-> TRUE]
    /\ UNCHANGED <<treeVars, dagVars, objTable, hookVars, phase, ctxVars, graphVars>>

\* a call of Start on a group of the tree
CallStart(g) ==
    /\ phase = "built"
    /\ last = NoCall
    /\ \E fs \in SUBSET (HookErrs("Start", startHooks, g) \cup
                         HookErrs("Stop", stopHooks, g)),
          ord \in ChildOrders :
        LET r == Start(g, fs, ord)
        IN last' = [op |-> "start", g |-> g, arg |-> {}, log |-> r.log, ret |-> r.ret, ok |-> TRUE]
    /\ UNCHANGED <<treeVars, dagVars, objTable, hookVars, phase, ctxVars, graphVars>>

\* a call of Stop on a group of the tree
CallStop(g) ==
    /\ phase = "built"
    /\ last = NoCall
    /\ \E fs \in SUBSET HookErrs("Stop", stopHooks, g), ord \in ChildOrders :
        LET r == Stop(g, fs, ord)
        IN last' = [op |-> "stop", g |-> g, arg |-> {}, log |-> r.log, ret |-> r.ret, ok |-> TRUE]
    /\ UNCHANGED <<treeVars, dagVars, objTable, hookVars, phase, ctxVars, graphVars>>

\* the Stop hooks invoked by a call, added to those invoked so far
Invoked(log) == {Err("Stop", log[p].g, log[p].t) : p \in {q \in 1..Len(log) : log[q].ev = "Stop"}}

Track(h, log) ==
    [once |-> h.once \cup Invoked(log), again |-> h.again \cup (h.once \cap Invoked(log))]

\* Start and Stop called on a group any number of times, in any order, over
\* the life of the tree; the Stop hooks they invoke are remembered
LifeStart(g) ==
    /\ phase = "built"
    /\ last = NoCall
    /\ \E fs \in SUBSET (HookErrs("Start", startHooks, g) \cup
                         HookErrs("Stop", stopHooks, g)),
          ord \in ChildOrders :
        LET r == Start(g, fs, ord)
        IN /\ last' = [op |-> "start", g |-> g, arg |-> {}, log |-> r.log, ret |-> r.ret, ok |-> TRUE]
           /\ stopHist' = Track(stopHist, r.log)
    /\ UNCHANGED <<treeVars, dagVars, objTable, hookVars, phase, ctxVars,
                   tg, tlast, tc, clast, procVars>>

LifeStop(g) ==
    /\ phase = "built"
    /\ last = NoCall
    /\ \E fs \in SUBSET HookErrs("Stop", stopHooks, g), ord \in ChildOrders :
        LET r == Stop(g, fs, ord)
        IN /\ last' = [op |-> "stop", g |-> g, arg |-> {}, log |-> r.log, ret |-> r.ret, ok |-> TRUE]
           /\ stopHist' = Track(stopHist, r.log)
    /\ UNCHANGED <<treeVars, dagVars, objTable, hookVars, phase, ctxVars,
                   tg, tlast, tc, clast, procVars>>

\* a call of IsHealthy on a group of the tree
CallIsHealthy(g) ==
    /\ phase = "built"
    /\ last = NoCall
    /\ \E sick \in SUBSET HookErrs("IsHealthy", healthHooks, g), ord \in ChildOrders :
        LET r == IsHealthy(g, sick, ord)
        IN last' = [op |-> "health", g |-> g, arg |-> sick, log |-> r.log,
                    ret |-> NoErr, ok |-> r.ok]
    /\ UNCHANGED <<treeVars, dagVars, objTable, hookVars, phase, ctxVars, graphVars>>

\* a call of the Shutdown function of a group (grp.ctx.Shutdown; for the root
\* group also the ServerShutdown function, grp.ctx.cancelFunc)
Shutdown(g) ==
    /\ phase # "failed"
    /\ last = NoCall
    /\ cancelled' = cancelFunc(g)
    /\ last' = [op |-> "shutdown", g |-> g, arg |-> {}, log |-> <<>>, ret |-> NoErr, ok |-> TRUE]
    /\ UNCHANGED <<treeVars, dagVars, objTable, hookVars, phase, ctxParent, graphVars>>

\* cube.Main.  Its initialization is the registrations and the build above;
\* it then configures, starts, waits for the root context and stops, and
\* panics on the first error.  main.trace has one entry for every phase Main
\* has been through: whether the root context was already cancelled when the
\* phase began, whether it returned no error, and whether Stop hooks were
\* invoked in it.
MainRoot == 1

Phase(ph, ret, log) ==
    [ph |-> ph, shut |-> MainRoot \in cancelled, ok |-> ret = NoErr,
     stops |-> \E p \in 1..Len(log) : log[p].ev = "Stop"]

MainStep(pc, ph, r) ==
    main' = [pc |-> IF r.ret = NoErr THEN pc ELSE "panicked",
             trace |-> Append(main.trace, Phase(ph, r.ret, r.log))]

MainUnchanged ==
    UNCHANGED <<treeVars, dagVars, objTable, hookVars, phase, ctxVars, last,
                tg, tlast, tc, clast, stopHist, rt>>

\* initF returned an error: panic(err)
MainPanic ==
    /\ main.pc = "init"
    /\ phase = "failed"
    /\ last = NoCall
    /\ main' = [main EXCEPT !.pc = "panicked"]
    /\ MainUnchanged

\* a Main that goes straight to Stop when shutdown was requested before
\* Configure returned
MainConfigureSkipsStart ==
    /\ main.pc = "init"
    /\ phase = "built"
    /\ last = NoCall
    /\ \E fs \in SUBSET (HookErrs("Get", configHooks, MainRoot) \cup
                         HookErrs("Configure", configHooks, MainRoot) \cup
                         {Err("Parse", MainRoot, ""), Err("Open", MainRoot, "")}),
          ord \in ChildOrders :
        MainStep(IF MainRoot \in cancelled THEN "woken" ELSE "configured",
                 "configure", Configure(MainRoot, fs, ord))
    /\ MainUnchanged

\* base.Configure(), panic on error
MainConfigure ==
    /\ main.pc = "init"
    /\ phase = "built"
    /\ last = NoCall
    /\ \E fs \in SUBSET (HookErrs("Get", configHooks, MainRoot) \cup
                         HookErrs("Configure", configHooks, MainRoot) \cup
                         {Err("Parse", MainRoot, ""), Err("Open", MainRoot, "")}),
          ord \in ChildOrders :
        MainStep("configured", "configure", Configure(MainRoot, fs, ord))
    /\ MainUnchanged

\* base.Start(), panic on error
MainStart ==
    /\ main.pc = "configured"
    /\ last = NoCall
    /\ \E fs \in SUBSET (HookErrs("Start", startHooks, MainRoot) \cup
                         HookErrs("Stop", stopHooks, MainRoot)),
          ord \in ChildOrders :
        MainStep("started", "start", Start(MainRoot, fs, ord))
    /\ MainUnchanged

\* a wait that is woken only by a shutdown requested after Start began
MainWaitMissesEarly ==
    /\ main.pc = "started"
    /\ last = NoCall
    /\ MainRoot \in cancelled
    /\ ~main.trace[Len(main.trace)].shut
    /\ MainStep("woken", "wait", [ret |-> NoErr, log |-> <<>>])
    /\ MainUnchanged

\* base.Invoke(func(ctx) { <-ctx.Ctx().Done() }): returns once the context of
\* the root group is cancelled, whenever that happened
MainWait ==
    /\ main.pc = "started"
    /\ last = NoCall
    /\ MainRoot \in cancelled
    /\ MainStep("woken", "wait", [ret |-> NoErr, log |-> <<>>])
    /\ MainUnchanged

\* base.Stop(), panic on error; Main returns
MainStop ==
    /\ main.pc = "woken"
    /\ last = NoCall
    /\ \E fs \in SUBSET HookErrs("Stop", stopHooks, MainRoot), ord \in ChildOrders :
        MainStep("returned", "stop", Stop(MainRoot, fs, ord))
    /\ MainUnchanged

\* Main is about to call Configure, Start or Stop on the root group
MainCalls ==
    /\ last = NoCall
    /\ \/ main.pc = "init" /\ phase = "built"
       \/ main.pc = "configured"
       \/ main.pc = "woken"

\* the shutdown function of a group called while Main runs, by the signal
\* handler or by a component; on a context that is cancelled already the call
\* changes nothing
MainShutdown(g) ==
    /\ main.pc \notin {"returned", "panicked"}
    /\ g \notin cancelled
    /\ Shutdown(g)

\* the caller takes the result of the call; the next call can be made
Return ==
    /\ last # NoCall
    /\ last' = NoCall
    /\ UNCHANGED <<treeVars, dagVars, objTable, hookVars, phase, ctxVars, graphVars>>

Next ==
    \/ \E g \in Groups, name \in Names : New(g, name)
    \/ \E g \in Groups, ctr \in GroupCtrs : Add(g, ctr)
    \/ \E g \in Groups : Create(g)
    \/ \E g \in Groups : CallConfigure(g)
    \/ \E g \in Groups : CallStart(g)
    \/ \E g \in Groups : CallStop(g)
    \/ \E g \in Groups : CallIsHealthy(g)
    \/ Return

Spec == Init /\ [][Next]_vars

\* The behaviours in which the contexts of the groups are cancelled: the tree
\* is built, Shutdown functions are called at any time and groups are stopped.
NextCtx ==
    \/ \E g \in Groups, name \in Names : New(g, name)
    \/ \E g \in Groups, ctr \in GroupCtrs : Add(g, ctr)
    \/ \E g \in Groups : Create(g)
    \/ \E g \in Groups : Shutdown(g)
    \/ \E g \in Groups : CallStop(g)
    \/ Return

SpecCtx == Init /\ [][NextCtx]_vars

\* The behaviours of a dependency graph used on its own.
NextDag ==
    \/ \E key \in DagKeys, val \in DagValues : CallNewVertex(key, val)
    \/ \E node \in DagKeys, deps \in DepLists : CallEdge(node, deps)
    \/ CallSort
    \/ DagReturn

SpecDag == Init /\ [][NextDag]_vars

\* The behaviours of a container constructors are registered with.
NextDi ==
    \/ \E ctr \in DiCtrs : CallAdd(ctr)
    \/ AddReturn

SpecDi == Init /\ [][NextDi]_vars

\* The behaviours in which the containers of the groups are populated with
\* constructors of every shape, built, and used to invoke functions.
NextBuild ==
    \/ \E g \in Groups, name \in Names : New(g, name)
    \/ \E g \in Groups, ctr \in BuildCtrs : Add(g, ctr)
    \/ \E g \in Groups : Create(g)
    \/ \E g \in Groups, f \in InvokeFns : CallInvoke(g, f)
    \/ Return

SpecBuild == Init /\ [][NextBuild]_vars

\* The behaviours over the life of a tree: it is built, then its groups are
\* started and stopped any number of times.
NextLife ==
    \/ \E g \in Groups, name \in Names : New(g, name)
    \/ \E g \in Groups, ctr \in GroupCtrs : Add(g, ctr)
    \/ \E g \in Groups : Create(g)
    \/ \E g \in Groups : LifeStart(g)
    \/ \E g \in Groups : LifeStop(g)
    \/ Return

SpecLife == Init /\ [][NextLife]_vars

\* The behaviours of a tree whose groups are registered with and built in any
\* order: a child group may be built before its parent is.
NextOrder ==
    \/ \E g \in Groups, name \in Names : New(g, name)
    \/ \E g \in Groups, ctr \in GroupCtrs : Add(g, ctr)
    \/ \E g \in Groups : CreateChild(g)
    \/ \E g \in Groups : Create(g)
    \/ Return

SpecOrder == Init /\ [][NextOrder]_vars

\* The behaviours of cube.Main, with the shutdown function called at any time.
NextMain ==
    \/ \E g \in Groups, name \in Names : New(g, name)
    \/ \E g \in Groups, ctr \in GroupCtrs : Add(g, ctr)
    \/ \E g \in Groups : Create(g)
    \/ MainPanic
    \/ MainConfigure
    \/ MainStart
    \/ MainWait
    \/ MainStop
    \/ \E g \in Groups : MainShutdown(g)
    \/ Return

SpecMain == Init /\ [][NextMain]_vars

\* Main is one thread that runs whenever it can: every call returns, Main
\* panics when the initialization has failed, its wait returns when it is
\* able to, and Main does not stay for ever in front of a call of Configure,
\* Start or Stop (it makes three such calls at most, so this is weak fairness
\* of MainConfigure, MainStart and MainStop).  Nothing makes the
\* initialization come to its end, or anybody call the shutdown function.
SpecMainFair ==
    /\ Init /\ [][NextMain]_vars
    /\ WF_vars(Return)
    /\ WF_vars(MainPanic)
    /\ WF_vars(MainWait)
    /\ []<>(~MainCalls)

\* The behaviours of a signal router: it is started, its context is
\* cancelled, signals arrive, and another goroutine changes the handlers.
NextRouter ==
    \/ RouterStart
    \/ RouterCancel
    \/ LoopDone
    \/ \E sig \in Sigs : LoopRecv(sig)
    \/ LoopRLock
    \/ LoopDispatch
    \/ \E sig \in Sigs, h \in Handlers : CallHandle(sig, h)
    \/ \E sig \in Sigs : CallReset(sig)
    \/ \E sig \in Sigs : CallIgnore(sig)
    \/ \E th \in Threads : Lock(th)
    \/ \E th \in Threads : Unlock(th)

SpecRouter == Init /\ [][NextRouter]_vars

\* ------------------------------------------------------------------- claims
\* The events of the observed call.
L == last.log

\* the components whose hook of the kind was called for group g, in call order
HookSeq(kind, g) ==
    LET sel == SelectSeq(L, LAMBDA e : e.ev = kind /\ e.g = g)
    IN [i \in 1..Len(sel) |-> sel[i].t]

Reverse(q) == [i \in 1..Len(q) |-> q[Len(q) + 1 - i]]

\* the positions of the log at which a hook of the kind returned an error
Failures(kind) == {p \in 1..Len(L) : L[p].ev = kind /\ L[p].r # NoErr}

\* C1: Stop of a group with the Stoppable hooks h1..hn invokes all n hooks, in
\* the order hn, ..., h1.
C1_StopCallsAllHooksInReverse ==
    last.op = "stop" => HookSeq("Stop", last.g) = Reverse(stopHooks[last.g])

\* C2: during Stop every Stoppable hook of the group is invoked, whichever of
\* the hooks return an error.
C2_StopCallsEveryHook ==
    last.op = "stop" =>
        \A i \in 1..Len(stopHooks[last.g]) :
            \E p \in 1..Len(L) :
                L[p].ev = "Stop" /\ L[p].g = last.g /\ L[p].t = stopHooks[last.g][i]

\* C3: if a Stoppable hook of the group or of a descendant group returns an
\* error during Stop, Stop of the group returns a non-nil error.
C3_StopReturnsErrorOfAnyHook ==
    (last.op = "stop" /\ Failures("Stop") # {}) => last.ret # NoErr

\* C4: Stop of a group has run Stop of every child group, and so every Stop
\* hook call of a descendant, before it invokes a Stop hook of the group.
C4_ChildrenStopBeforeOwnHooks ==
    last.op \in {"stop", "start"} =>
        \A p \in 1..Len(L) :
            L[p].ev = "Stop" =>
                /\ \A c \in ChildSet(L[p].g) :
                       \E q \in 1..(p - 1) : L[q].ev = "stop.exit" /\ L[q].g = c
                /\ \A q \in 1..Len(L) :
                       (L[q].ev = "Stop" /\ L[q].g \in Subtree(L[p].g) \ {L[p].g}) => q < p

C4_Witness ==
    /\ last.op = "stop"
    /\ \E p, q \in 1..Len(L) :
        /\ L[p].ev = "Stop" /\ L[q].ev = "Stop"
        /\ L[q].g \in ChildSet(L[p].g)

\* C5: Configure is fail-fast: when the k-th Configure hook of a group returns
\* an error, the hooks 1..k-1 have been configured, the error is returned, and
\* neither a later hook of the group nor a hook of a child group is configured.
C5_ConfigureFailFast ==
    last.op = "configure" =>
        \A p \in Failures("Configure") :
            LET g == L[p].g
                k == Len(HookSeq("Configure", g))
            IN /\ last.ret = L[p].r
               /\ HookSeq("Configure", g) = SubSeq(configHooks[g], 1, k)
               /\ \A q \in 1..Len(L) :
                      (L[q].ev = "Configure" /\ q # p) => (q < p /\ L[q].r = NoErr)
               /\ \A q \in 1..Len(L) :
                      L[q].ev = "Configure" => L[q].g \notin Subtree(g) \ {g}

C5_Witness ==
    /\ last.op = "configure"
    /\ \E p \in Failures("Configure") :
        /\ Len(HookSeq("Configure", L[p].g)) = 2
        /\ Len(configHooks[L[p].g]) = 3

\* C6: Start is fail-fast: when a Start hook of a group returns an error, Start
\* returns that error, no later Start hook of the group is invoked and no
\* child group is started.
C6_StartFailFast ==
    last.op = "start" =>
        \A p \in Failures("Start") :
            /\ last.ret = L[p].r
            /\ \A q \in (p + 1)..Len(L) : L[q].ev \notin {"Start", "start.enter"}
            /\ \A q \in 1..Len(L) :
                   L[q].ev = "start.enter" => L[q].g \notin ChildSet(L[p].g)

C6_Witness ==
    /\ last.op = "start"
    /\ \E p \in Failures("Start") :
        /\ Len(startHooks[L[p].g]) = 2
        /\ L[p].t = startHooks[L[p].g][1]
        /\ \E c \in ChildSet(L[p].g) : Len(configHooks[c]) > 0

\* C7: Start of a group returns success only if every Start hook of the group
\* and of every descendant group was invoked and returned no error.
C7_StartSuccessMeansAllStarted ==
    (last.op = "start" /\ last.ret = NoErr) =>
        \A g \in Subtree(last.g) :
            /\ HookSeq("Start", g) = startHooks[g]
            /\ \A p \in 1..Len(L) : L[p].ev = "Start" => L[p].r = NoErr

C7_Witness ==
    /\ last.op = "start" /\ last.ret = NoErr
    /\ Len(startHooks[last.g]) > 0
    /\ \E c \in Subtree(last.g) \ {last.g} : Len(startHooks[c]) > 0

\* C8: when a Start hook of a group fails, the group's Stop has run by the time
\* Start returns, so every Stop hook of the group has been invoked.
C8_StartFailureStopsEveryHook ==
    last.op = "start" =>
        \A p \in Failures("Start") :
            \A i \in 1..Len(stopHooks[L[p].g]) :
                \E q \in (p + 1)..Len(L) :
                    L[q].ev = "Stop" /\ L[q].g = L[p].g /\ L[q].t = stopHooks[L[p].g][i]

\* C9: when Start of a child group fails, Start of the parent returns that
\* error and invokes no Stop hook of the parent; only the group whose hook
\* failed (with its descendants) is stopped.
C9_ChildStartFailureNoParentStop ==
    last.op = "start" =>
        \A p \in Failures("Start") :
            \A g \in Groups :
                (L[p].g \in Subtree(g) \ {g} /\ \E q \in 1..Len(L) : L[q].ev = "start.enter" /\ L[q].g = g)
                => /\ \E q \in 1..Len(L) : L[q] = Ev("start.exit", g, "", L[p].r)
                   /\ \A q \in 1..Len(L) :
                          L[q].ev \in {"Stop", "stop.enter"} => L[q].g \in Subtree(L[p].g)

C9_Witness ==
    /\ last.op = "start" /\ last.ret # NoErr
    /\ Len(stopHooks[last.g]) = 1
    /\ \E p \in Failures("Start") : L[p].g \in ChildSet(last.g)

\* C10 as stated: in Configure and in Start the hooks of a group are invoked
\* before the hooks of its descendants and, within the group, in the order in
\* which their components were registered.
RegisteredOrder(kind, g) ==
    LET sel == SelectSeq(regs[g], LAMBDA c : kind \in Implements(c.outs[1]))
    IN [i \in 1..Len(sel) |-> sel[i].outs[1]]

ParentBeforeDescendants(kind) ==
    \A p, q \in 1..Len(L) :
        (L[p].ev = kind /\ L[q].ev = kind /\ L[q].g \in Subtree(L[p].g) \ {L[p].g}) => p < q

DependencyOrdered(list, g) ==
    \A i, j \in 1..Len(list[g]) :
        (\E n \in 1..Len(dagVal[g][list[g][i]].deps) :
            dagVal[g][list[g][i]].deps[n] = list[g][j]) => j < i

C11_HealthyIffAllHealthy ==
    last.op = "health" =>
        (last.ok <=> \A g \in Subtree(last.g) : \A i \in 1..Len(healthHooks[g]) :
                         Err("IsHealthy", g, healthHooks[g][i]) \notin last.arg)

C11_Witness ==
    /\ last.op = "health" /\ last.g = 1 /\ ~last.ok
    /\ Len(healthHooks[1]) > 0
    /\ \E g \in Subtree(1) \ {1} : \E t \in UserTypes : last.arg = {Err("IsHealthy", g, t)}

\* the groups below g in the tree: those with g on their chain of parents
RECURSIVE HasAncestor(_, _)
HasAncestor(h, g) ==
    parent[h] # NoGroup /\ (parent[h] = g \/ HasAncestor(parent[h], g))

Descendants(g) == {h \in Groups : HasAncestor(h, g)}

\* C12: once the shutdown function of the root group has been called, the
\* context of every descendant group, at any depth, reports cancelled.
C12_RootShutdownCancelsDescendants ==
    /\ (last.op = "shutdown" /\ parent[last.g] = NoGroup) => last.g \in cancelled
    /\ \A g \in Groups :
           (parent[g] = NoGroup /\ g \in cancelled) =>
               Descendants(g) \cup Subtree(g) \subseteq cancelled

C12_Witness ==
    /\ last.op = "shutdown" /\ last.g = 1
    /\ \E h \in Descendants(1) : parent[h] # 1 /\ h \in Subtree(1) /\ h \in cancelled

\* C13: Stop cancels the context of the group after the child groups have
\* been stopped and before the Stop hooks of the group are invoked; after
\* Stop has returned the context of the group reports cancelled, also when
\* no shutdown function was called.
C13_StopCancelsOwnContext ==
    last.op = "stop" =>
        /\ last.g \in cancelled
        /\ \E p \in 1..Len(L) :
               /\ L[p].ev = "Shutdown" /\ L[p].g = last.g
               /\ \A q \in 1..Len(L) :
                      /\ (L[q].ev = "stop.exit" /\ L[q].g \in ChildSet(last.g)) => q < p
                      /\ (L[q].ev = "Stop" /\ L[q].g = last.g) => p < q

\* C14: Configure of the root opens the configuration store before the first
\* lookup or Configure hook call anywhere in the tree, keeps it open for the
\* calls of all descendant groups (no group opens or closes it in between),
\* and closes it as its last step, whether the pass succeeded or failed (a
\* pass that ends before the store is open, because the command line or the
\* store's Open failed, has nothing to close and closes nothing).
C14_StoreOpenDuringConfigure ==
    (last.op = "configure" /\ parent[last.g] = NoGroup) =>
        LET opened == {p \in 1..Len(L) : L[p] = Ev("Open", last.g, "", NoErr)}
            closes == {p \in 1..Len(L) : L[p].ev = "Close"}
        IN /\ \A p \in 1..Len(L) :
                  L[p].ev \in {"Get", "Configure"} =>
                      /\ \E q \in opened : q < p
                      /\ \A q \in closes : p < q
           /\ \A p \in 1..Len(L) : L[p].ev \in {"Open", "Close"} => L[p].g = last.g
           /\ Cardinality({p \in 1..Len(L) : L[p].ev = "Open"}) <= 1
           /\ closes = IF opened # {} THEN {Len(L) - 1} ELSE {}
           /\ L[Len(L)] = Ev("configure.exit", last.g, "", last.ret)

C14_Witness ==
    /\ last.op = "configure" /\ parent[last.g] = NoGroup /\ last.ret # NoErr
    /\ \E p \in Failures("Configure") : L[p].g \in Subtree(last.g) \ {last.g}
    /\ Len(HookSeq("Configure", last.g)) > 0
    /\ L[Len(L) - 1].ev = "Close"

\* C15: in Configure the configuration of a component is read from the store
\* right before its Configure hook is called; when the lookup fails the hook
\* of that component is not called and Configure returns the lookup error.
C15_LookupBeforeConfigure ==
    last.op = "configure" =>
        /\ \A p \in 1..Len(L) :
               L[p].ev = "Configure" =>
                   p > 1 /\ L[p - 1] = Ev("Get", L[p].g, L[p].t, NoErr)
        /\ \A p \in Failures("Get") :
               /\ last.ret = L[p].r
               /\ \A q \in 1..Len(L) :
                      L[q].ev = "Configure" => (q < p /\ <<L[q].g, L[q].t>> # <<L[p].g, L[p].t>>)

C15_Witness ==
    /\ last.op = "configure"
    /\ \E p \in Failures("Get") :
           /\ Len(configHooks[L[p].g]) >= 2
           /\ L[p].t = configHooks[L[p].g][2]
           /\ Len(HookSeq("Configure", L[p].g)) = 1

\* the edge that makes node depend on dep would close a cycle in graph b:
\* dep is reached from node along one or more edges
Closes(b, node, dep) ==
    /\ node \in Vertices(b) /\ dep \in Vertices(b) /\ node # dep
    /\ dep \in Reachable(b.edges, node)

\* C16: after any sequence of vertex and edge insertions the graph is acyclic
\* (no vertex is reached from itself); an edge insertion that would close a
\* cycle, through a path of any length, returns an error and leaves the set of
\* edges as it was before the insertion.
C16_GraphStaysAcyclic ==
    /\ \A v \in Vertices(tg) : v \notin Reachable(tg.edges, v)
    /\ tlast.op = "edge" =>
           /\ (\E i \in 1..Len(tlast.deps) : Closes(tlast.before, tlast.key, tlast.deps[i]))
                  => ~tlast.ok
           /\ (Len(tlast.deps) = 1 /\ Closes(tlast.before, tlast.key, tlast.deps[1]))
                  => tg.edges = tlast.before.edges

C16_Witness ==
    /\ tlast.op = "edge" /\ Len(tlast.deps) = 1 /\ ~tlast.ok
    /\ Closes(tlast.before, tlast.key, tlast.deps[1])
    /\ <<tlast.key, tlast.deps[1]>> \notin tlast.before.edges

\* C17: a call of Edge that returns an error, for any number of dependencies
\* passed in the call, leaves the vertices and the edges of the graph exactly
\* as they were before the call.
C17_FailedEdgeLeavesGraph ==
    (tlast.op = "edge" /\ ~tlast.ok) =>
        /\ tg.val = tlast.before.val
        /\ tg.edges = tlast.before.edges

\* the position of key k in the sorted list q (0 when it is not in the list)
PosIn(q, k) ==
    IF \E i \in 1..Len(q) : q[i].Key = k
    THEN CHOOSE i \in 1..Len(q) : q[i].Key = k
    ELSE 0

\* C18: Sort returns every vertex of the graph exactly once, and for every
\* edge (node depends on dependency) the dependency comes strictly before the
\* node in the returned order.
C18_SortIsTopological ==
    tlast.op = "sort" =>
        LET q == tlast.out
        IN /\ Len(q) = Cardinality(Vertices(tg))
           /\ {q[i].Key : i \in 1..Len(q)} = Vertices(tg)
           /\ \A i \in 1..Len(q) : q[i].Value = tg.val[q[i].Key]
           /\ \A e \in tg.edges : PosIn(q, e[1]) < PosIn(q, e[2])

C18_Witness ==
    /\ tlast.op = "sort"
    /\ Len(tlast.out) = 3
    /\ Cardinality(tg.edges) = 2
    /\ \E e \in tg.edges : e[2] = tg.nodes[1]
    /\ \E i \in 1..3 : tlast.out[i].Key # tg.nodes[i]

\* C19 as stated: NewVertex fails exactly when the key exists with a
\* non-empty payload; an empty payload inserted over an empty payload succeeds
\* and leaves the graph unchanged.
C19_DuplicateOnlyWithPayload ==
    tlast.op = "vertex" =>
        /\ ~tlast.ok <=> tlast.before.val[tlast.key].k = "ctr"
        /\ (tlast.before.val[tlast.key] = NilCtr /\ tlast.val = NilCtr)
               => (tlast.ok /\ tg = tlast.before)

\* C19 amended: NewVertex fails exactly when the key is already a vertex,
\* whatever the payload it holds and the payload given; a failed insertion
\* leaves the graph unchanged, a successful one adds the vertex with the
\* payload and leaves the other vertices and the edges alone.
C19_DuplicateWheneverKeyExists ==
    tlast.op = "vertex" =>
        /\ ~tlast.ok <=> tlast.before.val[tlast.key].k # "absent"
        /\ ~tlast.ok => tg = tlast.before
        /\ tlast.ok =>
               /\ tg.val = [tlast.before.val EXCEPT ![tlast.key] = tlast.val]
               /\ tg.edges = tlast.before.edges

C19_Witness ==
    /\ tlast.op = "vertex" /\ ~tlast.ok
    /\ tlast.before.val[tlast.key] = NilCtr /\ tlast.val = NilCtr
    /\ tlast.before.edges # {}

\* the result types of a constructor
OutsOf(ctr) == {ctr.outs[i] : i \in 1..Len(ctr.outs)}

\* C20: within one container at most one constructor is registered per type:
\* Add of a constructor, with one or several results, one of whose result
\* types already has a constructor in the container returns an error, and the
\* types that had a constructor keep it.
C20_OneConstructorPerType ==
    /\ \A t \in UserTypes :
           Cardinality({i \in 1..Len(tc.regs) : t \in OutsOf(tc.regs[i])}) <= 1
    /\ \A i \in 1..Len(tc.regs) : \A t \in OutsOf(tc.regs[i]) : tc.d.val[t] = tc.regs[i]
    /\ clast.op = "add" =>
           ((\E t \in OutsOf(clast.ctr) : clast.before.val[t].k = "ctr") =>
               /\ ~clast.ok
               /\ tc.regs = clast.regs
               /\ \A t \in UserTypes :
                      clast.before.val[t].k = "ctr" => tc.d.val[t] = clast.before.val[t])

C20_Witness ==
    /\ clast.op = "add" /\ ~clast.ok
    /\ Len(clast.ctr.outs) = 2
    /\ clast.before.val[clast.ctr.outs[1]].k = "absent"
    /\ clast.before.val[clast.ctr.outs[2]].k = "ctr"
    /\ Len(tc.regs) = 1

\* the value of type t is visible from group g when event p of Create happens:
\* g or an ancestor of g has stored a value of that type
Visible(p, g, t) ==
    \E q \in 1..(p - 1) :
        /\ L[q].ev = "Store" /\ L[q].t = t
        /\ L[q].g = g \/ HasAncestor(g, L[q].g)

\* C21: Create rejects a produced value, with the error it returns, exactly
\* when its type is already available from an ancestor or from a value built
\* earlier in the same container; a type of the shadow set (Context, Shutdown)
\* is never rejected, and every group that is built holds its own value of it
\* although its ancestors provide the type.
C21_DuplicateProducerUnlessShadowed ==
    last.op = "create" =>
        /\ \A p \in 1..Len(L) :
               L[p].ev = "Value" =>
                   /\ L[p].r # NoErr <=> Visible(p, L[p].g, L[p].t)
                   /\ L[p].r # NoErr =>
                          (L[p].r.k = "present" /\ last.ret = L[p].r /\ p = Len(L))
        /\ last.ret.k = "present" => last.ret.t \notin GroupTypes
        /\ last.ret = NoErr => \A g \in Subtree(last.g) : GroupTypes \subseteq objTable[g]

C21_Witness ==
    /\ last.op = "create"
    /\ \E p \in 1..Len(L) :
           /\ L[p].ev = "Value" /\ L[p].r.k = "present"
           /\ parent[L[p].g] # NoGroup
           /\ L[p].t \in objTable[parent[L[p].g]]
           /\ ctxType \in objTable[L[p].g] /\ ctxType \in objTable[parent[L[p].g]]

\* C22: a parameter whose type is in the shadow set of the container and has
\* a value both in the container and in an ancestor is resolved to the value
\* of the container, whether the function names the type itself or a pointer
\* to it.
C22_LocalValueShadowsAncestor ==
    last.op = "invoke" =>
        \A a \in last.arg :
            (/\ a.k = "arg"
             /\ baseType(a.t) \in dupes(last.g)
             /\ baseType(a.t) \in objTable[last.g]
             /\ \E h \in Groups : HasAncestor(last.g, h) /\ baseType(a.t) \in objTable[h])
            => a.g = last.g

\* C23: an Add that returns an error leaves the graph of the container as it
\* was before the call: the same vertices, the same payloads, the same edges.
C23_FailedAddLeavesGraph ==
    (clast.op = "add" /\ ~clast.ok) => tc.d = clast.before

\* C24: Create stops at the first constructor that returns a non-nil error:
\* it returns that error, nothing happens after the call (no constructor is
\* called, no value is processed or stored, no child group is built), and no
\* result type of the failing constructor is in the object table.
C24_CreateStopsAtConstructorError ==
    last.op = "create" =>
        \A p \in 1..Len(L) :
            (L[p].ev = "Call" /\ L[p].r # NoErr) =>
                /\ last.ret = L[p].r
                /\ p = Len(L)
                /\ OutsOf(dagVal[L[p].g][L[p].t]) \cap objTable[L[p].g] = {}
                /\ \A c \in Subtree(L[p].g) \ {L[p].g} : objTable[c] = {}

C24_Witness ==
    /\ last.op = "create"
    /\ \E p \in 2..Len(L) :
           /\ L[p].ev = "Call" /\ L[p].r # NoErr
           /\ \E v \in UserTypes :
                  /\ dagVal[L[p].g][v].k = "ctr"
                  /\ \A q \in 1..Len(L) : ~(L[q].g = L[p].g /\ L[q].t = v)
           /\ ChildSet(L[p].g) # {}

\* C25: for a constructor that succeeds Create stores its non-error results
\* in the object table of the container and passes them to the value
\* processor; a trailing error result is neither processed nor stored, and no
\* value is rejected as a duplicate of it.
C25_ErrorResultIsNoValue ==
    /\ \A g \in Groups : errType \notin objTable[g]
    /\ last.op = "create" =>
           /\ \A p \in 1..Len(L) : L[p].ev \in {"Value", "Store"} => L[p].t # errType
           /\ last.ret = NoErr =>
                  \A p \in 1..Len(L) :
                      L[p].ev = "Call" =>
                          \A t \in OutsOf(dagVal[L[p].g][L[p].t]) :
                              /\ t \in objTable[L[p].g]
                              /\ \E q \in (p + 1)..Len(L) : L[q] = Ev("Value", L[p].g, t, NoErr)

\* the constructors registered with the group g or an ancestor of g produce t
Produces(g, t) == \E i \in 1..Len(regs[g]) : t \in OutsOf(regs[g][i])

Provided(g, t) ==
    \/ t \in GroupTypes \cup RootTypes
    \/ Produces(g, t)
    \/ \E h \in Groups : HasAncestor(g, h) /\ Produces(h, t)

\* what a build that can succeed is given: no constructor returns an error,
\* every parameter has a producer in the container or an ancestor, and no
\* type is produced both in a container and in an ancestor of it
Buildable(root) ==
    \A g \in Subtree(root) : \A i \in 1..Len(regs[g]) :
        /\ ~regs[g][i].fails
        /\ \A j \in 1..Len(regs[g][i].deps) : Provided(g, baseType(regs[g][i].deps[j]))
        /\ \A t \in OutsOf(regs[g][i]) :
               \A h \in Groups : HasAncestor(g, h) => ~Produces(h, t)

\* C26: whatever the order the constructors were registered in, when every
\* parameter has a producer in the container or an ancestor (and nothing else
\* makes the build fail) Create succeeds, and it calls a constructor only
\* after the values of the parameters produced in its own container are stored.
C26_AnyRegistrationOrderBuilds ==
    last.op = "create" =>
        /\ Buildable(last.g) => last.ret = NoErr
        /\ \A p \in 1..Len(L) :
               L[p].ev = "Call" =>
                   LET ctr == dagVal[L[p].g][L[p].t]
                   IN \A j \in 1..Len(ctr.deps) :
                          (/\ Observed(baseType(ctr.deps[j]))
                           /\ dagVal[L[p].g][baseType(ctr.deps[j])].k = "ctr") =>
                              \E q \in 1..(p - 1) :
                                  L[q] = Ev("Store", L[p].g, baseType(ctr.deps[j]), NoErr)

\* the vertices of the container of g whose constructor has a parameter that
\* is a placeholder vertex and that no ancestor provides
Unresolved(g) ==
    {v \in Types :
        /\ dagVal[g][v].k = "ctr"
        /\ \E j \in 1..Len(dagVal[g][v].deps) :
               /\ dagVal[g][baseType(dagVal[g][v].deps[j])].k = "nil"
               /\ get(objTable, g, dagVal[g][v].deps[j]) = NoGroup}

\* C27: a constructor whose parameter has no producer is accepted by Add;
\* Create passes over the placeholder vertex without calling anything, and
\* when neither a later Add nor an ancestor provided the type, Create fails:
\* once it comes to the consuming constructor it returns the
\* dependency-not-found error for that parameter and calls nothing.
C27_ForwardReferenceFailsAtBuild ==
    /\ (last.op = "add" /\ last.arg = {}) => last.ret = NoErr
    /\ last.op = "create" =>
           /\ \A p \in 1..Len(L) :
                  /\ L[p].ev = "Skip" <=> dagVal[L[p].g][L[p].t].k = "nil"
                  /\ L[p].ev = "Args" =>
                         /\ L[p].r.k = "depNotFound"
                         /\ get(objTable, L[p].g, L[p].r.t) = NoGroup
                         /\ last.ret = L[p].r /\ p = Len(L)
                  /\ (L[p].g \in Subtree(last.g) /\ L[p].t \in Unresolved(L[p].g)) =>
                         L[p].ev = "Args"
           /\ (\E g \in Subtree(last.g) : Unresolved(g) # {}) => last.ret # NoErr

C27_Witness ==
    /\ last.op = "create"
    /\ last.ret.k = "depNotFound"
    /\ Len(L) >= 3
    /\ L[Len(L)].ev = "Args"
    /\ \E p \in 1..Len(L) : L[p] = Ev("Skip", last.ret.g, last.ret.t, NoErr)
    /\ parent[last.ret.g] # NoGroup

\* C28: Invoke changes neither the object table nor the dependency graph of
\* any container (nor the constructors and hooks registered): the results of
\* the function are not cached; and when the function is called and returns a
\* non-nil error, Invoke returns that error.
C28_InvokeChangesNothing ==
    [][(last.op = "none" /\ last'.op = "invoke") =>
          /\ objTable' = objTable
          /\ dagVal' = dagVal /\ dagEdges' = dagEdges /\ regs' = regs
          /\ hookVars' = hookVars
          /\ (/\ Err("returns", last'.g, "") \in last'.arg
              /\ \A a \in last'.arg : a.k = "arg" => a.g # NoGroup)
             => last'.ret = Err("ctor", last'.g, "")]_vars

C28_Witness ==
    /\ last.op = "invoke" /\ last.ret = NoErr
    /\ \E a \in last.arg : a.k = "result" /\ a.t \notin objTable[last.g]
    /\ \E a \in last.arg : a.k = "arg" /\ a.g # NoGroup

\* C29: when New is called with a name a child of the same parent already
\* has, the group first registered under the name stays the child of that
\* name; and no build succeeds on a tree in which a name was used twice, that
\* is, in which a group was created that is no child of its parent.
C29_DuplicateNameIsBuildError ==
    /\ last.op = "new" =>
           \A a \in last.arg : a.k = "name" => children[parent[a.g]][a.t] = a.g
    /\ phase = "built" =>
           \A h \in Groups : parent[h] # NoGroup => h \in ChildSet(parent[h])

\* C30: once the tree is built, Context and Shutdown are resolved from the
\* container of a group to the values that group owns: never to those of an
\* ancestor, so a child group and its parent resolve distinct values; a
\* function invoked on a group with a Context parameter receives the Context
\* of that group.
C30_ContextIsPerGroup ==
    /\ phase = "built" =>
           \A g \in Subtree(1) : \A t \in GroupTypes :
               /\ get(objTable, g, t) = g
               /\ parent[g] # NoGroup => get(objTable, g, t) # get(objTable, parent[g], t)
    /\ (last.op = "invoke" /\ last.g \in Subtree(1)) =>
           \A a \in last.arg : (a.k = "arg" /\ a.t \in GroupTypes) => a.g = last.g

C30_Witness ==
    /\ last.op = "invoke"
    /\ parent[last.g] # NoGroup /\ parent[parent[last.g]] # NoGroup
    /\ Err("arg", last.g, ctxType) \in last.arg
    /\ get(objTable, parent[last.g], ctxType) = parent[last.g]
    /\ "A" \in objTable[last.g]

\* C36: when the constructor of component X takes component Y of the same
\* group as a parameter, the Start hook of Y is registered before the Start
\* hook of X and is invoked before it, whatever the order the two
\* constructors were registered in.
C36_DependencyStartsFirst ==
    /\ \A g \in Groups : DependencyOrdered(startHooks, g)
    /\ last.op = "start" =>
           \A p, q \in 1..Len(L) :
               (/\ L[p].ev = "Start" /\ L[q].ev = "Start" /\ L[p].g = L[q].g
                /\ \E n \in 1..Len(dagVal[L[p].g][L[p].t].deps) :
                       baseType(dagVal[L[p].g][L[p].t].deps[n]) = L[q].t)
               => q < p

C36_Witness ==
    /\ last.op = "start"
    /\ \E p, q \in 1..Len(L) :
           /\ q < p
           /\ L[p] = Ev("Start", L[q].g, "B", NoErr)
           /\ L[q] = Ev("Start", L[p].g, "A", NoErr)
           /\ regs[L[p].g][1].outs = <<"B">>

\* the number of calls Create made of the constructor ctr of group g
Calls(g, ctr) ==
    Cardinality({p \in 1..Len(L) :
        L[p].ev = "Call" /\ L[p].g = g /\ dagVal[g][L[p].t] = ctr})

\* C37: Create calls every registered constructor once, and no constructor
\* more than once, a constructor with several result types included.
C37_EachConstructorInvokedOnce ==
    last.op = "create" =>
        \A g \in Subtree(last.g) : \A i \in 1..Len(regs[g]) :
            /\ Calls(g, regs[g][i]) <= 1
            /\ last.ret = NoErr => Calls(g, regs[g][i]) = 1

\* C39: a call of the Shutdown function of a group that is not the root
\* cancels the context of that group and of its descendants and no other: the
\* contexts of its parent, of its siblings and of the root are as before.
C39_ChildShutdownIsLocal ==
    [][(last.op = "none" /\ last'.op = "shutdown" /\ parent[last'.g] # NoGroup) =>
          /\ cancelled' = cancelled \cup {last'.g} \cup Descendants(last'.g)
          /\ \A h \in Groups :
                 (h # last'.g /\ ~HasAncestor(h, last'.g)) =>
                     (h \in cancelled' <=> h \in cancelled)]_vars

C39_Witness ==
    /\ last.op = "shutdown"
    /\ parent[last.g] = 1
    /\ Descendants(last.g) # {}
    /\ Descendants(last.g) \subseteq cancelled
    /\ 1 \notin cancelled

\* C33: over the life of a group, for any sequence of Start and Stop calls
\* (the rollback of a failed Start followed by a Stop of the group or of its
\* parent included), no Stop hook is invoked more than once.
C33_StopHookAtMostOnce == stopHist.again = {}

\* C35: after any sequence of Handle, Ignore and Reset calls no signal is
\* both handled and ignored; after Handle(sig) the signal is handled and not
\* ignored, after Ignore(sig) it is ignored and not handled, after Reset(sig)
\* it is not handled.
C35_HandledXorIgnored ==
    /\ \A sig \in Sigs : ~(IsHandled(rt, sig) /\ IsIgnored(rt, sig))
    /\ rt.lastOp.op = "handle" =>
           IsHandled(rt, rt.lastOp.sig) /\ ~IsIgnored(rt, rt.lastOp.sig)
    /\ rt.lastOp.op = "ignore" =>
           IsIgnored(rt, rt.lastOp.sig) /\ ~IsHandled(rt, rt.lastOp.sig)
    /\ rt.lastOp.op = "reset" => ~IsHandled(rt, rt.lastOp.sig)

\* Handle has returned for one signal while the other one is ignored
C35_Witness ==
    /\ rt.lastOp.op = "handle"
    /\ rt.pc["api"] = "idle"
    /\ IsIgnored(rt, "TERM")
    /\ rt.lastOp.sig = "INT"
    /\ IsHandled(rt, "INT")

\* C34: for every interleaving of Start with the cancellation of the
\* context, IsHealthy is true only while the receive loop is running: once
\* the loop has exited IsHealthy is false and stays false.
C34_HealthyOnlyWhileLoopRuns ==
    RouterIsHealthy(rt) => rt.pc["loop"] \notin {"off", "exited"}

\* C40: a handler running inside the receive loop can call Handle, Reset or
\* Ignore without the router deadlocking: the loop never waits for the write
\* lock while the read lock it holds itself keeps the lock from being granted.
C40_HandlerMayCallRouter ==
    \A th \in Threads : ~(rt.pc[th] = "lock" /\ th \in rt.readers)

\* C38: after any interleaving of registrations and builds on a parent and a
\* child container, in either order, no type outside the shadow set has a
\* stored value both in a container and in one of its ancestors.
C38_OneValuePerHierarchy ==
    \A g, h \in Groups :
        HasAncestor(g, h) => (objTable[g] \cap objTable[h]) \subseteq dupes(g)

MainEnded == main.pc \in {"returned", "panicked"}

\* the phases Main goes through after the initialization, in their order
MainPhases == <<"configure", "start", "wait", "stop">>

\* C31 as stated: once the shutdown function is invoked, at any time
\* including during initialization, and the initialization has come to its
\* end, Main's wait unblocks, Main runs stop on the root group and returns.
C31_ShutdownLeadsToReturn ==
    (MainRoot \in cancelled /\ phase # "init") ~> (main.pc = "returned")

\* C31: once the shutdown function is invoked, at any time including during
\* initialization, Main's wait on the root context unblocks when Main reaches
\* it and Main then runs stop on the root group; Main returns when
\* initialization, configure, start and stop return no error, and panics on
\* the first of them that returns one.
C31_ShutdownEndsMain ==
    /\ (MainRoot \in cancelled /\ phase # "init") ~> MainEnded
    /\ (MainRoot \in cancelled /\ main.pc = "started") ~>
           (MainEnded /\ Len(main.trace) = Len(MainPhases))
    /\ [](main.pc = "returned" =>
             /\ Len(main.trace) = Len(MainPhases)
             /\ \A i \in 1..Len(main.trace) :
                    main.trace[i].ph = MainPhases[i] /\ main.trace[i].ok)
    /\ [](main.pc = "panicked" =>
             \/ phase = "failed"
             \/ main.trace # <<>> /\ ~main.trace[Len(main.trace)].ok)

\* Main has returned, and the shutdown function was called before Configure
C31_Witness ==
    /\ main.pc = "returned"
    /\ main.trace[1].shut
    /\ main.trace[4].stops

\* C32 as stated: the phases of Main are strictly ordered, and no Stoppable
\* hook is invoked before start of the whole tree has returned successfully.
C32_NoStopBeforeStarted ==
    \A i \in 1..Len(main.trace) :
        /\ main.trace[i].ph = MainPhases[i]
        /\ i > 1 => main.trace[i - 1].ok
        /\ main.trace[i].stops => main.trace[i].ph = "stop"

\* C32: in Main the phases are strictly ordered: construction, configure of
\* the whole tree, start of the whole tree, the wait on root cancellation,
\* stop; each begins only after the one before returned no error, the wait
\* ends only with the root cancelled, and no Stoppable hook is invoked before
\* start of the whole tree has returned successfully, except by the rollback
\* of a start that fails, even when shutdown was requested earlier.
C32_PhasesOrdered ==
    /\ main.pc # "init" => phase # "init"
    /\ main.trace # <<>> => phase = "built"
    /\ \A i \in 1..Len(main.trace) :
        /\ main.trace[i].ph = MainPhases[i]
        /\ i > 1 => main.trace[i - 1].ok
        /\ main.trace[i].ph = "wait" => MainRoot \in cancelled
        /\ main.trace[i].stops =>
               \/ main.trace[i].ph = "stop"
               \/ main.trace[i].ph = "start" /\ ~main.trace[i].ok

\* Main has stopped the tree, invoking Stop hooks, after a shutdown that was
\* requested before Configure began
C32_Witness ==
    /\ Len(main.trace) = 4
    /\ main.trace[1].shut
    /\ main.trace[4].stops
    /\ ~main.trace[2].stops

====
